---- MODULE Spec2Model ----
(***************************************************************************)
(* Model of the validation engine of src/core: SmartValidator              *)
(* (smart_validator.py), the quality scorer (filter_quality_sites.py) and  *)
(* the de-duplicating merges (smart_build.py, prepare_publish.py).         *)
(*                                                                         *)
(* Text is a sequence of lexemes: "http://h/a.js" is                       *)
(* <<"http", ":", "//", "h", "/", "a", ".js">>.  Every keyword the code looks  *)
(* for ('.js', 'csp_', 'http', ';md5;', ...) is one lexeme, text is cut at *)
(* keyword boundaries, so `kw in s`, s.startswith(kw) and s.endswith(kw)   *)
(* are computed on the lexeme sequence exactly as Python computes them on  *)
(* the characters.                                                         *)
(*                                                                         *)
(* A JSON value of a site descriptor is a record [t, s, n]: t is "str",    *)
(* "int", "null" or "absent" (key missing), s its text, n its number.      *)
(***************************************************************************)
EXTENDS Integers, Sequences, FiniteSets, TLC

VARIABLES
    pc,                 \* position in the running top-level operation
    arg,                \* input of the operation under check
    ret,                \* result of the pure function under check
    stack,              \* call stack of download_plugin: one frame per call
    fs,                 \* the cache directory: resolved path -> URL whose body it holds
    fetchLog,           \* network fetches download_plugin issued in this run
    dl,                 \* (success, content) the top-level download_plugin returned
    run,                \* number of the resolution run over the same cache
    sites,              \* validate_config: the manifest's site descriptors (mutated in place)
    idx,                \* validate_config: index of the site the loop is at
    info,               \* validate_site: the record being filled
    probe,              \* test_plugin_urls: [urls, results] of the running call
    probeLog,           \* requests test_api_site and test_plugin_urls sent
    valid_sites,        \* validate_config: indices of the sites kept
    invalid_sites,      \* validate_config: indices of the sites dropped
    validation_details, \* validate_config: the records, in loop order
    out,                \* files written: clean manifest and report
    interrupts          \* KeyboardInterrupts delivered so far

vars == <<pc, arg, ret, stack, fs, fetchLog, dl, run, sites, idx, info, probe,
          probeLog, valid_sites, invalid_sites, validation_details, out, interrupts>>

\* the state of validate_config, which the other operations leave alone
runVars == <<sites, idx, info, probe, probeLog, valid_sites, invalid_sites,
             validation_details, out, interrupts>>

----------------------------------------------------------------------------
(* Text                                                                    *)

StartsWith(s, p) ==
    /\ Len(p) <= Len(s)
    /\ SubSeq(s, 1, Len(p)) = p

EndsWith(s, p) ==
    /\ Len(p) <= Len(s)
    /\ SubSeq(s, Len(s) - Len(p) + 1, Len(s)) = p

Contains(s, p) ==
    \E i \in 1..(Len(s) - Len(p) + 1) : SubSeq(s, i, i + Len(p) - 1) = p


\* s.split(d): the pieces of s between the occurrences of lexeme d
SplitOn(s, d) ==
    LET split[t \in Seq(STRING)] ==
            IF \A i \in 1..Len(t) : t[i] # d THEN <<t>>
            ELSE LET i == CHOOSE j \in 1..Len(t) :
                              t[j] = d /\ \A k \in 1..(j - 1) : t[k] # d
                 IN  <<SubSeq(t, 1, i - 1)>> \o split[SubSeq(t, i + 1, Len(t))]
    IN  split[s]

\* d.join(pieces)
JoinWith(pieces, d) ==
    LET join[ps \in Seq(Seq(STRING))] ==
            IF ps = <<>> THEN <<>>
            ELSE IF Len(ps) = 1 THEN ps[1]
            ELSE ps[1] \o <<d>> \o join[Tail(ps)]
    IN  join[pieces]

\* index of the last occurrence of lexeme d in s, 0 when there is none
LastIndex(s, d) ==
    IF \A i \in 1..Len(s) : s[i] # d THEN 0
    ELSE CHOOSE j \in 1..Len(s) : s[j] = d /\ \A k \in (j + 1)..Len(s) : s[k] # d

\* the segments of a path with '.' and '' dropped and each '..' removing the
\* segment before it; at the root a '..' is dropped (urljoin, Path.resolve)
DotSegments(segs, acc) ==
    LET walk[ss \in Seq(Seq(STRING)), kept \in Seq(Seq(STRING))] ==
            IF ss = <<>> THEN kept
            ELSE LET x == Head(ss)
                 IN  IF x = <<>> \/ x = <<".">> THEN walk[Tail(ss), kept]
                     ELSE IF x = <<"..">>
                          THEN walk[Tail(ss),
                                    IF kept = <<>> THEN kept
                                    ELSE SubSeq(kept, 1, Len(kept) - 1)]
                     ELSE walk[Tail(ss), Append(kept, x)]
    IN  walk[segs, acc]

----------------------------------------------------------------------------
(* JSON values and dict.get                                                *)

StrV(s) == [t |-> "str", s |-> s, n |-> 0]
IntV(n) == [t |-> "int", s |-> <<>>, n |-> n]
NullV == [t |-> "null", s |-> <<>>, n |-> 0]
AbsentV == [t |-> "absent", s |-> <<>>, n |-> 0]

\* dict.get(key, default): the default only when the key is missing
Get(v, default) == IF v.t = "absent" THEN default ELSE v

\* Python truthiness of a JSON value
Truthy(v) ==
    \/ v.t = "str" /\ v.s # <<>>
    \/ v.t = "int" /\ v.n # 0

\* `kw in v` and v.startswith(kw) raise TypeError/AttributeError unless v is a str
IsStr(v) == v.t = "str"

----------------------------------------------------------------------------
(* Lexemes the code searches for                                           *)

HTTP == <<"http">>
DOT_JS == <<".js">>
DOT_PY == <<".py">>
DOT_JAR == <<".jar">>
CSP == <<"csp_">>

RAISE == "RAISE"

\* classify_site with the kind test placed after the suffix tests
ClassifySiteSuffixFirst(site) ==
    LET api == Get(site.api, StrV(<<>>))
        site_type == Get(site.type, IntV(0))
    IN  IF ~IsStr(api) THEN RAISE
        ELSE IF Contains(api.s, DOT_JS) \/ EndsWith(api.s, DOT_JS) THEN "js"
        ELSE IF Contains(api.s, DOT_PY) \/ EndsWith(api.s, DOT_PY) THEN "python"
        ELSE IF site_type.t = "int" /\ site_type.n = 1 THEN "api"
        ELSE IF Contains(api.s, DOT_JAR) \/ Truthy(Get(site.jar, NullV)) THEN "jar"
        ELSE IF StartsWith(api.s, CSP) THEN "jar"
        ELSE IF StartsWith(api.s, HTTP) THEN "api"
        ELSE "unknown"

\* classify_site with the archive test placed before the script tests
ClassifySiteJarFirst(site) ==
    LET api == Get(site.api, StrV(<<>>))
        site_type == Get(site.type, IntV(0))
    IN  IF site_type.t = "int" /\ site_type.n = 1 THEN "api"
        ELSE IF ~IsStr(api) THEN RAISE
        ELSE IF Contains(api.s, DOT_JAR) \/ Truthy(Get(site.jar, NullV)) THEN "jar"
        ELSE IF Contains(api.s, DOT_JS) \/ EndsWith(api.s, DOT_JS) THEN "js"
        ELSE IF Contains(api.s, DOT_PY) \/ EndsWith(api.s, DOT_PY) THEN "python"
        ELSE IF StartsWith(api.s, CSP) THEN "jar"
        ELSE IF StartsWith(api.s, HTTP) THEN "api"
        ELSE "unknown"

\* SmartValidator.classify_site
ClassifySite(site) ==
    LET api == Get(site.api, StrV(<<>>))
        site_type == Get(site.type, IntV(0))
    IN  IF site_type.t = "int" /\ site_type.n = 1 THEN "api"
        ELSE IF ~IsStr(api) THEN RAISE
        ELSE IF Contains(api.s, DOT_JS) \/ EndsWith(api.s, DOT_JS) THEN "js"
        ELSE IF Contains(api.s, DOT_PY) \/ EndsWith(api.s, DOT_PY) THEN "python"
        ELSE IF Contains(api.s, DOT_JAR) \/ Truthy(Get(site.jar, NullV)) THEN "jar"
        ELSE IF StartsWith(api.s, CSP) THEN "jar"
        ELSE IF StartsWith(api.s, HTTP) THEN "api"
        ELSE "unknown"

----------------------------------------------------------------------------
(* URLs and cache paths                                                    *)

\* urllib.parse.quote(path, safe='/:?=&%'): unsafe characters are
\* percent-encoded, the safe ones and letters, digits, '_.-~' kept
QuoteLexeme(l) == IF l = " " THEN "%20" ELSE l

Quote(s) == [i \in 1..Len(s) |-> QuoteLexeme(s[i])]

\* download_plugin's "URL encoding" of the path part of a URL
EncodeUrl(url) ==
    IF Contains(url, <<":", "//">>) /\ Len(url) >= 4
       /\ LastIndex(SubSeq(url, 4, Len(url)), "/") > 0
    THEN LET i == CHOOSE j \in 5..Len(url) :
                      url[j] = "/" /\ \A k \in 5..(j - 1) : url[k] # "/"
         IN  SubSeq(url, 1, i) \o Quote(SubSeq(url, i + 1, Len(url)))
    ELSE url

HasScheme(ref) == Len(ref) >= 2 /\ ref[2] = ":"

\* urllib.parse.urljoin(base, ref) for an http(s) base
UrlJoin(base, ref) ==
    LET origin == SubSeq(base, 1, 4)
        basepath == SubSeq(base, 5, Len(base))
        basesegs == SplitOn(basepath, "/")
        dirsegs == SubSeq(basesegs, 1, Len(basesegs) - 1)
    IN  IF ref = <<>> THEN base
        ELSE IF HasScheme(ref) THEN ref
        ELSE IF ref[1] = "//" THEN <<base[1], ":">> \o ref
        ELSE IF ref[1] = "/"
             THEN origin \o <<"/">> \o JoinWith(DotSegments(SplitOn(ref, "/"), <<>>), "/")
        ELSE origin \o <<"/">>
                 \o JoinWith(DotSegments(dirsegs \o SplitOn(ref, "/"), <<>>), "/")

\* base_url.rsplit('/', 1)[0] + '/'
BaseDirUrl(base_url) ==
    IF LastIndex(base_url, "/") > 0
    THEN SubSeq(base_url, 1, LastIndex(base_url, "/"))
    ELSE base_url \o <<"/">>

\* the working directory the relative output directory is resolved against
Cwd == <<"/", "w">>

\* Path.parent
ParentPath(p) == SubSeq(p, 1, LastIndex(p, "/") - 1)

\* parent / dep: an absolute dep replaces the parent
PathJoin(parent, dep) ==
    IF dep # <<>> /\ dep[1] \in {"/", "//"}
    THEN <<"/">> \o Tail(dep)
    ELSE parent \o <<"/">> \o dep

\* Path.resolve(): absolute, '.' and '..' segments removed
ResolvePath(p) ==
    LET abs == IF p # <<>> /\ p[1] = "/" THEN p ELSE Cwd \o <<"/">> \o p
    IN  <<"/">> \o JoinWith(DotSegments(SplitOn(abs, "/"), <<>>), "/")

\* Path.suffix == '.js'
HasJsSuffix(p) ==
    /\ Len(p) >= 2
    /\ p[Len(p)] = ".js"
    /\ p[Len(p) - 1] # "/"

\* re.sub(r'[^\w\-]', '_', key): every character that is no word character
\* and no '-' becomes '_'
SafeLexeme(l) ==
    IF l \in {" ", "/", ":", ".", "?", "*"} THEN "_"
    ELSE IF l = ".js" THEN "_js"
    ELSE IF l = "//" THEN "__"
    ELSE l

SafeKey(key) == [i \in 1..Len(key) |-> SafeLexeme(key[i])]

----------------------------------------------------------------------------
(* Records of validate_site and the idle state of validate_config          *)

NoInfo ==
    [key |-> NullV, name |-> NullV, type |-> "none", valid |-> FALSE, reason |-> "",
     analysed |-> FALSE, urls |-> <<>>, variant |-> "none",
     valid_count |-> 0, total_count |-> 0]

NoProbe == [urls |-> <<>>, results |-> <<>>]

NoFiles == [clean |-> <<>>, report |-> <<>>]

IdleRun ==
    /\ sites = <<>>
    /\ idx = 0
    /\ info = NoInfo
    /\ probe = NoProbe
    /\ probeLog = <<>>
    /\ valid_sites = <<>>
    /\ invalid_sites = <<>>
    /\ validation_details = <<>>
    /\ out = NoFiles
    /\ interrupts = 0

----------------------------------------------------------------------------
(* The remote side: what each URL serves.  A body is a sequence of chunks  *)
(* (maximal runs without whitespace or quotes): [k |-> "import", v] is the *)
(* quoted specifier of an import/from/require, [k |-> "text", v] any other *)
(* chunk.                                                                  *)

Import(v) == [k |-> "import", v |-> v]
Text(v) == [k |-> "text", v |-> v]

Served(toks) == [found |-> TRUE, toks |-> toks]
NotFound == [found |-> FALSE, toks |-> <<>>]

CfgDir == <<"http", ":", "//", "h", "/", "cfg", "/">>
File(name, ext) == CfgDir \o <<name, ext>>

RemoteBody(url) ==
    CASE url = File("cyc", ".js") -> Served(<<Import(<<".", "/", "cyb", ".js">>)>>)
      [] url = File("cyb", ".js") ->
            Served(<<Import(<<"cyc", ".js">>), Import(<<".", "/", "cyb", ".js">>)>>)
      [] url = File("ch0", ".js") -> Served(<<Import(<<".", "/", "ch1", ".js">>)>>)
      [] url = File("ch1", ".js") -> Served(<<Import(<<".", "/", "ch2", ".js">>)>>)
      [] url = File("ch2", ".js") -> Served(<<Import(<<".", "/", "ch3", ".js">>)>>)
      [] url = File("ch3", ".js") -> Served(<<Import(<<".", "/", "ch4", ".js">>)>>)
      [] url = File("ch4", ".js") -> Served(<<Import(<<".", "/", "ch5", ".js">>)>>)
      [] url = File("ch5", ".js") -> Served(<<Text(<<"x">>)>>)
      [] url = File("mix", ".js") ->
            Served(<<Import(<<"http", ":", "//", "cdn.tld", "/", "lib", ".js">>),
                     Import(<<"..", "/", "up", ".js">>),
                     Import(<<".", "/", "lib">>),
                     Import(<<"b", " ", "c", ".js">>)>>)
      [] url = <<"http", ":", "//", "h", "/", "up", ".js">> ->
            Served(<<Import(<<".", "/", "cfg", "/", "mix", ".js">>)>>)
      [] url = File("lib", "") -> Served(<<Import(<<".", "/", "ch4", ".js">>)>>)
      [] url = CfgDir \o <<"b", "%20", "c", ".js">> -> Served(<<Text(<<"x">>)>>)
      [] url = File("bad", ".js") ->
            Served(<<Import(<<"//", "[", "x", "/", "a", ".js">>),
                     Import(<<".", "/", "plain", ".js">>)>>)
      [] url = File("plain", ".js") -> Served(<<Text(<<"var">>), Text(<<"x">>)>>)
      [] url = File("word", ".js") -> Served(<<Text(<<"http", "x">>)>>)
      [] url = File("rel", ".js") -> Served(<<Text(<<"//", "cdn.tld", "/", "x">>)>>)
      [] url = File("url", ".js") ->
            Served(<<Text(<<"http", ":", "//", "cdn.tld", "/", "v", ";">>),
                     Text(<<"https", ":", "//", "h", "/", "w">>)>>)
      [] url = File("app", ".js") ->
            Served(<<Import(<<".", "/", "plain", ".js">>),
                     Text(<<"drpy2">>),
                     Text(<<"http", ":", "//", "h", "/", "v">>)>>)
      [] url = File("many", ".js") ->
            Served(<<Text(<<"https", ":", "//", "h", "/", "0">>),
                     Text(<<"http", ":", "//", "h", "/", "8">>),
                     Text(<<"http", ":", "//", "h", "/", "7">>),
                     Text(<<"http", ":", "//", "h", "/", "6">>),
                     Text(<<"http", ":", "//", "h", "/", "5">>),
                     Text(<<"http", ":", "//", "h", "/", "4">>),
                     Text(<<"http", ":", "//", "h", "/", "3">>),
                     Text(<<"http", ":", "//", "h", "/", "2">>),
                     Text(<<"http", ":", "//", "h", "/", "1">>),
                     Text(<<"http", ":", "//", "h", "/", "0">>),
                     Text(<<"//", "cdn.tld", "/", "x">>)>>)
      [] url = File("empty", ".js") -> Served(<<>>)
      [] url = File("a", ".py") -> Served(<<Text(<<"Spider">>), Text(<<"getDependence">>)>>)
      [] url = File("e", ".py") -> Served(<<>>)
      [] url = File("s", ".jar") ->
            Served(<<Text(<<"PK">>), Import(<<".", "/", "plain", ".js">>)>>)
      [] OTHER -> NotFound

----------------------------------------------------------------------------
(* SmartValidator.download_plugin and _process_js_dependencies             *)

MaxDepthDefault == 3

\* find_js_dependencies: the import/require specifiers, but for data: and js:
FindJsDependencies(toks) ==
    { toks[i].v : i \in { j \in 1..Len(toks) :
                            /\ toks[j].k = "import"
                            /\ ~StartsWith(toks[j].v, <<"data", ":">>)
                            /\ ~StartsWith(toks[j].v, <<"js", ":">>) } }

Frame(url, path, depth, max_depth) ==
    [url |-> url, path |-> path, depth |-> depth, max_depth |-> max_depth,
     st |-> "call", todo |-> {}, content |-> <<>>]

Top == stack[Len(stack)]

Failed == [ok |-> FALSE, content |-> <<>>]

\* the frame on top returns `result`; the caller of a nested call ignores it
Return(result) ==
    /\ stack' = SubSeq(stack, 1, Len(stack) - 1)
    /\ IF Len(stack) = 1
       THEN dl' = result /\ pc' = "fetched"
       ELSE UNCHANGED <<dl, pc>>

\* line 108: if depth > max_depth: return False, None
DepthGuard(depth, max_depth) == depth > max_depth

\* line 129 without its depth test
RecurseGuardAnyDepth(path, depth, max_depth) == HasJsSuffix(path)

\* line 129: if output_path.suffix == '.js' and depth < max_depth
RecurseGuard(path, depth, max_depth) == HasJsSuffix(path) /\ depth < max_depth

\* line 176 without the test for an existing file
NeedsDownloadAlways(dep_path, files) == TRUE

\* line 176: if not dep_path.exists()
NeedsDownload(dep_path, files) == dep_path \notin DOMAIN files

LogEntry(url, f) ==
    [url |-> url, depth |-> f.depth, path |-> ResolvePath(f.path),
     cached |-> ResolvePath(f.path) \in DOMAIN fs]

\* download_plugin up to the point where the dependencies are walked
DownloadPlugin ==
    /\ pc = "fetch"
    /\ stack # <<>>
    /\ Top.st = "call"
    /\ UNCHANGED <<arg, ret, run>>
    /\ UNCHANGED runVars
    /\ LET f == Top
           url == EncodeUrl(f.url)
           body == RemoteBody(url)
       IN  IF DepthGuard(f.depth, f.max_depth)
           THEN Return(Failed) /\ UNCHANGED <<fs, fetchLog>>
           ELSE /\ fetchLog' = Append(fetchLog, LogEntry(url, f))
                /\ \E outcome \in {"ok", "fail", "writefail"} :
                     IF outcome = "ok" /\ body.found
                     THEN /\ fs' = [q \in DOMAIN fs \cup {ResolvePath(f.path)} |->
                                      IF q = ResolvePath(f.path) THEN url ELSE fs[q]]
                          /\ IF RecurseGuard(f.path, f.depth, f.max_depth)
                             THEN /\ stack' = [stack EXCEPT ![Len(stack)] =
                                        [f EXCEPT !.st = "deps", !.url = url,
                                                  !.content = body.toks,
                                                  !.todo = FindJsDependencies(body.toks)]]
                                  /\ UNCHANGED <<dl, pc>>
                             ELSE Return([ok |-> TRUE, content |-> body.toks])
                     ELSE /\ outcome # "ok"
                          /\ Return(Failed)
                          /\ UNCHANGED fs

\* line 161: urljoin raises ValueError (Invalid IPv6 URL) on a specifier that
\* opens a bracketed host and never closes it; the handler of line 179, which
\* encloses the whole loop, ends the loop
JoinRaises(dep) == StartsWith(dep, <<"//", "[">>)

\* line 144 as a loop that never leaves its current specifier
RemainingAll(todo, dep) == todo

\* line 144: `for dep in deps` goes on with the specifiers not yet visited
Remaining(todo, dep) == todo \ {dep}

\* one iteration of the loop over deps in _process_js_dependencies
ProcessDependency ==
    /\ pc = "fetch"
    /\ stack # <<>>
    /\ Top.st = "deps"
    /\ UNCHANGED <<arg, ret, run, fs, fetchLog, dl, pc>>
    /\ UNCHANGED runVars
    /\ \E dep \in Top.todo :
         LET f == Top
             rest == [f EXCEPT !.todo = Remaining(f.todo, dep)]
             dep_url == UrlJoin(BaseDirUrl(f.url), dep)
             dep_path == ResolvePath(PathJoin(ParentPath(f.path), dep))
         IN  IF StartsWith(dep, HTTP)
             THEN stack' = [stack EXCEPT ![Len(stack)] = rest]
             ELSE IF JoinRaises(dep)
             THEN stack' = [stack EXCEPT ![Len(stack)] = [f EXCEPT !.todo = {}]]
             ELSE IF NeedsDownload(dep_path, fs)
             THEN stack' = Append([stack EXCEPT ![Len(stack)] = rest],
                                  Frame(dep_url, dep_path, f.depth + 1, f.max_depth))
             ELSE stack' = [stack EXCEPT ![Len(stack)] = rest]

\* the loop is over: download_plugin returns True, content
DependenciesDone ==
    /\ pc = "fetch"
    /\ stack # <<>>
    /\ Top.st = "deps"
    /\ Top.todo = {}
    /\ UNCHANGED <<arg, ret, run, fs, fetchLog>>
    /\ UNCHANGED runVars
    /\ Return([ok |-> TRUE, content |-> Top.content])

----------------------------------------------------------------------------
(* analyze_js_plugin, classify_plugin_variant                              *)

\* match.rstrip('",;)}]')
RECURSIVE RStrip(_)
RStrip(s) ==
    IF s # <<>> /\ s[Len(s)] \in {"\"", ",", ";", ")", "}", "]"}
    THEN RStrip(SubSeq(s, 1, Len(s) - 1))
    ELSE s

\* host names the pattern [a-zA-Z0-9][a-zA-Z0-9-]+\.[^\s'"<>]+ matches
DottedHosts == {"cdn.tld", "s1.tld", "s2.tld"}

\* r'https?://[^\s\'"<>]+' on one chunk: from the first scheme to the chunk's end
HttpMatches(v) ==
    LET at == { i \in 1..(Len(v) - 3) :
                  v[i] \in {"http", "https"} /\ v[i + 1] = ":" /\ v[i + 2] = "//" }
    IN  IF at = {} THEN {}
        ELSE {SubSeq(v, CHOOSE i \in at : \A j \in at : i <= j, Len(v))}

\* r'//[a-zA-Z0-9][a-zA-Z0-9-]+\.[^\s\'"<>]+' on one chunk
ProtocolRelativeMatches(v) ==
    LET at == { i \in 1..(Len(v) - 1) : v[i] = "//" /\ v[i + 1] \in DottedHosts }
    IN  IF at = {} THEN {}
        ELSE {SubSeq(v, CHOOSE i \in at : \A j \in at : i <= j, Len(v))}

\* order of the first characters of the lexemes a URL can begin with
LexemeRank(l) ==
    CASE l = "//" -> 1
      [] l = "0" -> 2
      [] l = "1" -> 3
      [] l = "2" -> 4
      [] l = "3" -> 5
      [] l = "4" -> 6
      [] l = "5" -> 7
      [] l = "6" -> 8
      [] l = "7" -> 9
      [] l = "8" -> 10
      [] l = "http" -> 11
      [] l = "https" -> 12
      [] OTHER -> 13

\* a < b in Python's string order, decided at the first lexeme that differs
Before(a, b) ==
    \E i \in 1..Len(a) :
        /\ i <= Len(b)
        /\ SubSeq(a, 1, i - 1) = SubSeq(b, 1, i - 1)
        /\ LexemeRank(a[i]) < LexemeRank(b[i])

\* sorted(list(urls))
RECURSIVE Sorted(_)
Sorted(set) ==
    IF set = {} THEN <<>>
    ELSE LET first == CHOOSE x \in set : \A y \in set : ~Before(y, x)
         IN  <<first>> \o Sorted(set \ {first})

\* analyze_js_plugin(content)['urls']
AnalyzeJsPlugin(toks) ==
    LET found == UNION { HttpMatches(toks[i].v) \cup ProtocolRelativeMatches(toks[i].v) :
                           i \in 1..Len(toks) }
    IN  Sorted({RStrip(u) : u \in found} \ {<<>>})

HasLexeme(toks, l) == \E i \in 1..Len(toks) : Contains(toks[i].v, l)

\* classify_plugin_variant(site_type, content)
ClassifyPluginVariant(site_type, toks) ==
    IF site_type = "js"
    THEN IF \/ HasLexeme(toks, <<"drpy-core">>)
            \/ HasLexeme(toks, <<"drpy2">>)
            \/ HasLexeme(toks, <<"//", "DRPY">>)
         THEN "js_drpy" ELSE "js_standalone"
    ELSE IF HasLexeme(toks, <<"Spider">>) /\ HasLexeme(toks, <<"getDependence">>)
         THEN "py_t3" ELSE "python_standalone"

----------------------------------------------------------------------------
(* Manifests                                                               *)

ConfigUrl == CfgDir \o <<"m", ".json">>

\* base_url = f"{scheme}://{netloc}{'/'.join(path.split('/')[:-1])}/"
BaseUrl(config_url) ==
    LET segs == SplitOn(SubSeq(config_url, 5, Len(config_url)), "/")
    IN  SubSeq(config_url, 1, 4) \o JoinWith(SubSeq(segs, 1, Len(segs) - 1), "/") \o <<"/">>

Manifest(has, ss, lives) ==
    [has |-> has, sites |-> ss, spider |-> <<"sp", ".jar">>,
     wallpaper |-> <<"w", ".jpg">>, parses |-> <<"p1">>, lives |-> lives]

ManifestFields == {"sites", "spider", "wallpaper", "parses", "lives"}

\* config.get(field, default)
ConfigGet(config, field, default) ==
    IF field \in config.has THEN config[field] ELSE default

\* lines 448-449 left out: the run goes on whatever download_config returned
NotConfigNever(fetched, config) == FALSE

\* `not config`: download_config returned None, or the document is an empty object
NotConfig(fetched, config) == ~fetched \/ config.has = {}

Live(isdict, url) == [isdict |-> isdict, url |-> url]

\* the live sources kept: dicts whose url starts with 'http'; RAISE when a
\* dict's url is no str
CleanLives(lives) ==
    IF \E i \in 1..Len(lives) : lives[i].isdict /\ ~IsStr(Get(lives[i].url, StrV(<<>>)))
    THEN RAISE
    ELSE LET keep == { i \in 1..Len(lives) :
                         /\ lives[i].isdict
                         /\ StartsWith(Get(lives[i].url, StrV(<<>>)).s, HTTP) }
             F[i \in 0..Len(lives)] ==
                 IF i = 0 THEN <<>>
                 ELSE IF i \in keep THEN Append(F[i - 1], lives[i]) ELSE F[i - 1]
         IN  F[Len(lives)]

----------------------------------------------------------------------------
(* Dependency resolution on its own: one top-level download_plugin call,   *)
(* and its re-runs over the cache the earlier runs left                    *)

MaxRuns == 2

DownloadDir == <<"out", "/", "plugins">>

ResolveRoots ==
    {File("cyc", ".js"), File("ch0", ".js"), File("mix", ".js"), File("bad", ".js")}

\* sanitized site keys: the second makes the root's cache path that of a dependency
ResolveKeys == {<<"k">>, <<"cyb">>}

EmptyCache == [q \in {} |-> <<>>]

\* caches an earlier, interrupted or partial run may have left
InitialCaches ==
    { EmptyCache,
      [q \in {ResolvePath(DownloadDir \o <<"/", "ch2", ".js">>)} |-> File("ch2", ".js")] }

InitResolve ==
    /\ pc = "fetch"
    /\ \E url \in ResolveRoots, key \in ResolveKeys :
         /\ arg = [url |-> url, path |-> DownloadDir \o <<"/">> \o key \o DOT_JS]
         /\ stack = <<Frame(url, DownloadDir \o <<"/">> \o key \o DOT_JS, 0, MaxDepthDefault)>>
    /\ fs \in InitialCaches
    /\ fetchLog = <<>>
    /\ dl = Failed
    /\ run = 1
    /\ ret = "none"
    /\ IdleRun

Rerun ==
    /\ pc = "fetched"
    /\ run < MaxRuns
    /\ run' = run + 1
    /\ pc' = "fetch"
    /\ stack' = <<Frame(arg.url, arg.path, 0, MaxDepthDefault)>>
    /\ fetchLog' = <<>>
    /\ UNCHANGED <<arg, ret, fs, dl>>
    /\ UNCHANGED runVars

NextResolve == DownloadPlugin \/ ProcessDependency \/ DependenciesDone \/ Rerun

SpecResolve == InitResolve /\ [][NextResolve]_vars

\* download_plugin runs on one thread: a call that has started goes on with its
\* next statement, and urlopen returns or raises within its timeout.  Whether
\* the caller starts another run is left open.
SpecResolveLive ==
    /\ InitResolve
    /\ [][NextResolve]_vars
    /\ WF_vars(DownloadPlugin)
    /\ WF_vars(ProcessDependency)
    /\ WF_vars(DependenciesDone)

----------------------------------------------------------------------------
(* SmartValidator.validate_config and validate_site                        *)

MaxInterrupts == 1

ProbeCap == 10


\* the reason texts of test_api_site and validate_site
Reason ==
    [api_ok |-> "API accessible",
     api_format |-> "response format anomaly",
     api_status |-> "HTTP status",
     api_urlerror |-> "URL Error",
     api_exception |-> "exception text",
     plugin_ok |-> "plugin usable, some URLs reachable",
     plugin_dead |-> "all URLs in the plugin unreachable",
     no_static_url |-> "plugin downloaded (no static URL)",
     python_ok |-> "Python plugin downloaded",
     plugin_failed |-> "plugin download failed",
     not_csp |-> "not a CSP plugin, uses the global JAR",
     csp_global |-> "CSP plugin, uses the global JAR",
     jar_ok |-> "JAR downloaded",
     jar_failed |-> "JAR download failed",
     unknown |-> "unknown type"]

LocalPrefix == <<".", "/", "plugins", "/">>

\* lines 472-475 with the test of `valid` dropped
AppendIfValidAlways(list, i, valid) == Append(list, i)

\* lines 472-473: if valid: valid_sites.append(site)
AppendIfValid(list, i, valid) == IF valid THEN Append(list, i) ELSE list

\* lines 474-475 left out: no site is filed as invalid
AppendIfInvalidNever(list, i, valid) == list

\* lines 474-475: else: invalid_sites.append(site)
AppendIfInvalid(list, i, valid) == IF valid THEN list ELSE Append(list, i)

\* validate_site returns (info['valid'], info); validate_config files it and moves on
FinishSite(inf, newSites) ==
    /\ info' = inf
    /\ sites' = newSites
    /\ validation_details' = Append(validation_details, inf)
    /\ valid_sites' = AppendIfValid(valid_sites, idx, inf.valid)
    /\ invalid_sites' = AppendIfInvalid(invalid_sites, idx, inf.valid)
    /\ idx' = idx + 1
    /\ pc' = "loop"

Verdict(inf, valid, reason) == [inf EXCEPT !.valid = valid, !.reason = reason]

\* output_path.name of the plugin file of a script site
PluginFileName(key, site_type) ==
    SafeKey(key.s) \o (IF site_type = "js" THEN DOT_JS ELSE DOT_PY)

\* lines 373-378 left out: the descriptor stays as it was
RewriteApiKeep(site, site_type) == site

\* lines 373-378 with the test of line 377 left out: ext is rewritten too
RewriteApiAndExt(site, site_type) ==
    LET key == Get(site.key, StrV(<<"unknown">>))
        rel_path == StrV(LocalPrefix \o PluginFileName(key, site_type))
    IN  [site EXCEPT !.api = rel_path, !.ext = rel_path]

\* lines 373-378: api, and ext when it equals the old api, point to the local file
RewriteApi(site, site_type) ==
    LET api == Get(site.api, StrV(<<>>))
        key == Get(site.key, StrV(<<"unknown">>))
        rel_path == StrV(LocalPrefix \o PluginFileName(key, site_type))
    IN  [site EXCEPT !.api = rel_path,
                     !.ext = IF site.ext = api THEN rel_path ELSE site.ext]

\* lines 421-423 left out: the jar field stays as it was
RewriteJarKeep(site) == site

\* lines 421-423: jar points to the local archive
RewriteJar(site) ==
    LET key == Get(site.key, StrV(<<"unknown">>))
    IN  [site EXCEPT !.jar = StrV(LocalPrefix \o <<"jar", "/">> \o SafeKey(key.s) \o DOT_JAR)]

\* lines 406-409: the archive URL, its ';md5;' suffix removed
JarUrl(jar_text, base_url) ==
    LET stripped == IF Contains(jar_text, <<";md5;">>)
                    THEN SplitOn(jar_text, ";md5;")[1] ELSE jar_text
    IN  IF StartsWith(stripped, HTTP) THEN stripped ELSE UrlJoin(base_url, stripped)

\* line 398 with the test always false: every csp_ site downloads an archive
UsesGlobalJarNever(jar_url) == FALSE

\* line 398: if not jar_url
UsesGlobalJar(jar_url) == ~Truthy(jar_url)

\* download_config, and the `if not config` test after it
DownloadConfig ==
    /\ pc = "download_config"
    /\ UNCHANGED <<arg, stack, fs, fetchLog, dl, run, info, probe, probeLog,
                   valid_sites, invalid_sites, validation_details, out, interrupts>>
    /\ \E fetched \in BOOLEAN :
         /\ ret' = IF fetched THEN "dict" ELSE "None"
         /\ IF NotConfig(fetched, arg)
            THEN pc' = "failed" /\ UNCHANGED <<sites, idx>>
            ELSE /\ pc' = "loop"
                 /\ sites' = ConfigGet(arg, "sites", <<>>)
                 /\ idx' = 1

\* validate_site up to its first network request, or to its return when it sends none
ValidateSite ==
    /\ pc = "loop"
    /\ idx <= Len(sites)
    /\ UNCHANGED <<arg, ret, fs, fetchLog, dl, run, probeLog, out, interrupts>>
    /\ LET site == sites[idx]
           key == Get(site.key, StrV(<<"unknown">>))
           name == Get(site.name, StrV(<<"unknown">>))
           site_type == ClassifySite(site)
           api == Get(site.api, StrV(<<>>))
           jar == Get(site.jar, StrV(<<>>))
           base_url == BaseUrl(ConfigUrl)
           inf == [NoInfo EXCEPT !.key = key, !.name = name, !.type = site_type]
           raise == /\ pc' = "raised"
                    /\ UNCHANGED <<sites, idx, info, probe, stack, valid_sites,
                                   invalid_sites, validation_details>>
           finish(valid, reason) ==
                    /\ FinishSite(Verdict(inf, valid, reason), sites)
                    /\ UNCHANGED <<probe, stack>>
           download(url, path) ==
                    /\ pc' = "fetch"
                    /\ stack' = <<Frame(url, path, 0, MaxDepthDefault)>>
                    /\ info' = inf
                    /\ UNCHANGED <<sites, idx, probe, valid_sites, invalid_sites,
                                   validation_details>>
       IN  IF site_type = RAISE THEN raise
           ELSE IF site_type = "api"
           THEN IF ~IsStr(api) THEN raise
                ELSE /\ pc' = "api_probe"
                     /\ info' = inf
                     /\ probe' = [urls |-> <<IF StartsWith(api.s, HTTP) THEN api.s
                                             ELSE UrlJoin(base_url, api.s)>>,
                                  results |-> <<>>]
                     /\ UNCHANGED <<sites, idx, stack, valid_sites, invalid_sites,
                                    validation_details>>
           ELSE IF site_type \in {"js", "python"}
           THEN IF ~IsStr(key) THEN raise
                ELSE download(IF StartsWith(api.s, HTTP) THEN api.s
                              ELSE UrlJoin(base_url, api.s),
                              DownloadDir \o <<"/">> \o PluginFileName(key, site_type))
           ELSE IF site_type = "jar"
           THEN IF ~StartsWith(api.s, CSP) THEN finish(TRUE, Reason.not_csp)
                ELSE IF UsesGlobalJar(jar) THEN finish(TRUE, Reason.csp_global)
                ELSE IF ~IsStr(jar) \/ ~IsStr(key) THEN raise
                ELSE download(JarUrl(jar.s, base_url),
                              DownloadDir \o <<"/", "jar", "/">> \o SafeKey(key.s) \o DOT_JAR)
           ELSE finish(FALSE, Reason.unknown)

Response(status, body) == [kind |-> "response", status |-> status, body |-> body]

Raised(kind, code) == [kind |-> kind, status |-> code, body |-> <<>>]

\* what urlopen can do with the request of test_api_site: answer (urllib
\* raises HTTPError for the 4xx and 5xx codes), or raise
ApiResponses ==
    { Response(200, <<"{", "list", "}">>), Response(200, <<"<?xml", "x">>),
      Response(200, <<"x", "<rss">>), Response(200, <<"ok">>), Response(200, <<>>),
      Response(204, <<"{", "}">>),
      Raised("HTTPError", 404), Raised("URLError", 0), Raised("timeout", 0) }

\* line 90: b'<rss' in content or b'<?xml' in content or b'{' in content
HasMarker(body) ==
    \/ Contains(body, <<"<rss">>)
    \/ Contains(body, <<"<?xml">>)
    \/ Contains(body, <<"{">>)

\* lines 86-101 with the test of the body left out
ApiVerdictStatusOnly(resp) ==
    IF resp.kind = "response" /\ resp.status = 200
    THEN [valid |-> TRUE, reason |-> Reason.api_ok]
    ELSE [valid |-> FALSE, reason |-> Reason.api_status]

\* lines 86-101: the verdict of test_api_site on what urlopen did
ApiVerdict(resp) ==
    IF resp.kind = "response"
    THEN IF resp.status = 200
         THEN IF HasMarker(resp.body)
              THEN [valid |-> TRUE, reason |-> Reason.api_ok]
              ELSE [valid |-> FALSE, reason |-> Reason.api_format]
         ELSE [valid |-> FALSE, reason |-> Reason.api_status]
    ELSE IF resp.kind = "HTTPError" THEN [valid |-> FALSE, reason |-> Reason.api_status]
    ELSE IF resp.kind = "URLError" THEN [valid |-> FALSE, reason |-> Reason.api_urlerror]
    ELSE [valid |-> FALSE, reason |-> Reason.api_exception]

\* test_api_site: the request and the verdict on its response; probe keeps
\* what urlopen did
TestApiSite ==
    /\ pc = "api_probe"
    /\ UNCHANGED <<arg, ret, stack, fs, fetchLog, dl, run, out, interrupts>>
    /\ probeLog' = Append(probeLog, probe.urls[1])
    /\ \E resp \in ApiResponses :
         /\ probe' = [probe EXCEPT !.results = <<resp>>]
         /\ FinishSite(Verdict(info, ApiVerdict(resp).valid, ApiVerdict(resp).reason), sites)

\* line 279 without its slice: every candidate is probed
ProbeSliceAll(urls) == urls

\* urls[:10]
ProbeSlice(urls) == SubSeq(urls, 1, IF Len(urls) < ProbeCap THEN Len(urls) ELSE ProbeCap)

\* lines 333-383 and 416-428: validate_site after download_plugin returned
AfterDownload ==
    /\ pc = "fetched"
    /\ idx \in 1..Len(sites)
    /\ UNCHANGED <<arg, ret, stack, fs, fetchLog, dl, run, probeLog, out, interrupts>>
    /\ LET site == sites[idx]
       IN  IF info.type = "jar"
           THEN /\ UNCHANGED probe
                /\ IF dl.ok
                   THEN FinishSite(Verdict(info, TRUE, Reason.jar_ok),
                                   [sites EXCEPT ![idx] = RewriteJar(site)])
                   ELSE FinishSite(Verdict(info, FALSE, Reason.jar_failed), sites)
           ELSE IF ~(dl.ok /\ dl.content # <<>>)
           THEN /\ UNCHANGED probe
                /\ FinishSite(Verdict(info, FALSE, Reason.plugin_failed), sites)
           ELSE LET inf == [info EXCEPT !.variant =
                                ClassifyPluginVariant(info.type, dl.content)]
                    urls == AnalyzeJsPlugin(dl.content)
                    rewritten == [sites EXCEPT ![idx] = RewriteApi(site, info.type)]
                IN  IF info.type = "python"
                    THEN /\ UNCHANGED probe
                         /\ FinishSite(Verdict(inf, TRUE, Reason.python_ok), rewritten)
                    ELSE IF urls = <<>>
                    THEN /\ UNCHANGED probe
                         /\ FinishSite(Verdict([inf EXCEPT !.analysed = TRUE],
                                               TRUE, Reason.no_static_url), rewritten)
                    ELSE /\ pc' = "probe_urls"
                         /\ info' = [inf EXCEPT !.analysed = TRUE, !.urls = urls]
                         /\ probe' = [urls |-> ProbeSlice(urls), results |-> <<>>]
                         /\ UNCHANGED <<sites, idx, valid_sites, invalid_sites,
                                        validation_details>>

\* number of URLs found reachable
CountTrue(results) == Cardinality({i \in 1..Len(results) : results[i]})

\* one probe of test_plugin_urls has the result `reachable`; after the last one
\* validate_site decides (lines 351-361) and rewrites the descriptor
ProbeResult(reachable) ==
    LET results == Append(probe.results, reachable)
        valid_count == CountTrue(results)
        inf == [info EXCEPT !.valid_count = valid_count, !.total_count = Len(results)]
    IN  IF Len(results) < Len(probe.urls)
        THEN /\ probe' = [probe EXCEPT !.results = results]
             /\ UNCHANGED <<pc, sites, idx, info, valid_sites, invalid_sites,
                            validation_details>>
        ELSE /\ probe' = NoProbe
             /\ FinishSite(Verdict(inf, valid_count > 0,
                                   IF valid_count > 0 THEN Reason.plugin_ok ELSE Reason.plugin_dead),
                           [sites EXCEPT ![idx] = RewriteApi(sites[idx], "js")])

\* urllib can only open a URL that has a scheme: Request('//host/x') raises
CanRequest(url) == StartsWith(url, <<"http", ":">>) \/ StartsWith(url, <<"https", ":">>)

\* one iteration of the loop of test_plugin_urls
TestPluginUrls ==
    /\ pc = "probe_urls"
    /\ UNCHANGED <<arg, ret, stack, fs, fetchLog, dl, run, out, interrupts>>
    /\ LET url == probe.urls[Len(probe.results) + 1]
       IN  IF CanRequest(url)
           THEN /\ probeLog' = Append(probeLog, url)
                /\ \E reachable \in BOOLEAN : ProbeResult(reachable)
           ELSE /\ probeLog' = probeLog
                /\ ProbeResult(FALSE)

CleanConfig(config, ss, kept) ==
    [spider |-> ConfigGet(config, "spider", <<>>),
     wallpaper |-> ConfigGet(config, "wallpaper", <<".", "/", "bgwall", ".jpg">>),
     sites |-> [i \in 1..Len(kept) |-> ss[kept[i]]],
     parses |-> ConfigGet(config, "parses", <<>>),
     lives |-> CleanLives(ConfigGet(config, "lives", <<>>))]

\* lines 479-492: the clean manifest is built and written
WriteCleanConfig ==
    /\ pc = "loop"
    /\ idx > Len(sites)
    /\ UNCHANGED <<arg, ret, stack, fs, fetchLog, dl, run, sites, idx, info, probe,
                   probeLog, valid_sites, invalid_sites, validation_details, interrupts>>
    /\ IF CleanLives(ConfigGet(arg, "lives", <<>>)) = RAISE
       THEN pc' = "raised" /\ UNCHANGED out
       ELSE /\ pc' = "write_report"
            /\ out' = [out EXCEPT !.clean = <<CleanConfig(arg, sites, valid_sites)>>]

\* lines 494-506: the report is built and written
WriteReport ==
    /\ pc = "write_report"
    /\ pc' = "done"
    /\ out' = [out EXCEPT !.report =
                 <<[total_sites |-> Len(sites),
                    valid_sites |-> Len(valid_sites),
                    invalid_sites |-> Len(invalid_sites),
                    validation_details |-> validation_details]>>]
    /\ UNCHANGED <<arg, ret, stack, fs, fetchLog, dl, run, sites, idx, info, probe,
                   probeLog, valid_sites, invalid_sites, validation_details, interrupts>>

Running ==
    pc \in {"download_config", "loop", "api_probe", "fetch", "fetched", "probe_urls",
            "write_report"}

\* KeyboardInterrupt while validate_config runs.  No handler of validate_config,
\* validate_site, test_api_site or download_plugin catches it (they catch
\* Exception), so it reaches main, which prints and returns 1; the bare
\* `except:` of test_plugin_urls catches it when it arrives inside urlopen:
\* the URL is recorded False and the loop goes on.
Interrupt ==
    /\ Running
    /\ interrupts < MaxInterrupts
    /\ interrupts' = interrupts + 1
    /\ UNCHANGED <<arg, ret, stack, fs, fetchLog, dl, run, out>>
    /\ \/ /\ pc' = "cancelled"
          /\ UNCHANGED <<sites, idx, info, probe, probeLog, valid_sites, invalid_sites,
                         validation_details>>
       \/ /\ pc = "probe_urls"
          /\ CanRequest(probe.urls[Len(probe.results) + 1])
          /\ probeLog' = Append(probeLog, probe.urls[Len(probe.results) + 1])
          /\ ProbeResult(FALSE)

Next ==
    \/ DownloadConfig
    \/ ValidateSite
    \/ TestApiSite
    \/ DownloadPlugin
    \/ ProcessDependency
    \/ DependenciesDone
    \/ AfterDownload
    \/ TestPluginUrls
    \/ WriteCleanConfig
    \/ WriteReport
    \/ Interrupt

----------------------------------------------------------------------------
(* Site descriptors the checks draw from                                   *)

ApiTexts ==
    { <<>>,
      <<"http", ":", "//", "h", "/", "a", ".js">>,
      <<"http", ":", "//", "h", "/", "a", ".js", "?v">>,
      <<".", "/", "a", ".js">>,
      <<"a", ".js", "on">>,
      <<"http", ":", "//", "h", "/", "a", ".py">>,
      <<"a", ".py">>,
      <<"http", ":", "//", "h", "/", "a", ".jar">>,
      <<"csp_", "X">>,
      <<"csp_", "X", ".js">>,
      <<"http", ":", "//", "h", "/", "api">>,
      <<"X">> }

ApiValues == {StrV(s) : s \in ApiTexts} \cup {NullV, AbsentV, IntV(7)}

TypeValues == {AbsentV, NullV, IntV(0), IntV(1), IntV(3), StrV(<<"1">>)}

JarValues ==
    { AbsentV, NullV, StrV(<<>>),
      StrV(<<"http", ":", "//", "h", "/", "s", ".jar">>),
      StrV(<<".", "/", "s", ".jar", ";md5;", "abc">>) }

Descriptor(key, name, type, api, ext, jar) ==
    [key |-> key, name |-> name, type |-> type, api |-> api, ext |-> ext, jar |-> jar,
     searchable |-> AbsentV, quickSearch |-> AbsentV]

ClassifyInputs ==
    { Descriptor(StrV(<<"k">>), StrV(<<"n">>), ty, api, AbsentV, jar) :
        ty \in TypeValues, api \in ApiValues, jar \in JarValues }

----------------------------------------------------------------------------
(* Manifests validate_config is run on                                     *)

MaxSites == 2

Name == StrV(<<"n">>)

Script(name) == StrV(<<".", "/", name, ".js">>)

ApiSite ==
    Descriptor(StrV(<<"api1">>), Name, IntV(1),
               StrV(<<"http", ":", "//", "h", "/", "api">>), AbsentV, AbsentV)

AppSite == Descriptor(StrV(<<"app">>), Name, IntV(3), Script("app"), Script("app"), AbsentV)

CspSite ==
    Descriptor(StrV(<<"csp">>), Name, IntV(3), StrV(<<"csp_", "X">>), AbsentV,
               StrV(<<".", "/", "s", ".jar", ";md5;", "abc">>))

UnknownSite == Descriptor(StrV(<<"u">>), Name, AbsentV, StrV(<<"X">>), AbsentV, AbsentV)

NullApiSite == Descriptor(StrV(<<"na">>), Name, AbsentV, NullV, AbsentV, AbsentV)

\* the descriptors the manifests of several sites are made of
ManifestSites == {ApiSite, AppSite, CspSite, UnknownSite, NullApiSite}

\* the descriptors a manifest of one site can hold
SiteInputs ==
    ManifestSites \cup
    { Descriptor(StrV(<<"plain">>), Name, IntV(3), StrV(File("plain", ".js")), AbsentV, AbsentV),
      Descriptor(StrV(<<"a", " ", "b">>), AbsentV, AbsentV, Script("plain"), StrV(<<"e">>), NullV),
      Descriptor(AbsentV, Name, IntV(3), Script("word"), AbsentV, AbsentV),
      Descriptor(StrV(<<"rel">>), Name, IntV(3), Script("rel"), Script("rel"), AbsentV),
      Descriptor(StrV(<<"url">>), Name, IntV(3), Script("url"), AbsentV, AbsentV),
      Descriptor(StrV(<<"many">>), Name, IntV(3), Script("many"), AbsentV, AbsentV),
      Descriptor(StrV(<<"empty">>), Name, IntV(3), Script("empty"), AbsentV, AbsentV),
      Descriptor(StrV(<<"cyc">>), Name, IntV(3), Script("cyc"), AbsentV, AbsentV),
      Descriptor(StrV(<<"gone">>), Name, IntV(3), Script("gone"), AbsentV, AbsentV),
      Descriptor(IntV(5), Name, IntV(3), Script("plain"), AbsentV, AbsentV),
      Descriptor(NullV, Name, IntV(3), Script("plain"), AbsentV, AbsentV),
      Descriptor(StrV(<<"py">>), Name, IntV(3), StrV(<<".", "/", "a", ".py">>),
                 StrV(<<".", "/", "a", ".py">>), AbsentV),
      Descriptor(StrV(<<"epy">>), Name, IntV(3), StrV(<<".", "/", "e", ".py">>), AbsentV, AbsentV),
      Descriptor(StrV(<<"c0">>), Name, IntV(3), StrV(<<"csp_", "X">>), AbsentV, AbsentV),
      Descriptor(IntV(5), Name, IntV(0), StrV(<<"csp_", "X">>), AbsentV, StrV(<<>>)),
      Descriptor(StrV(<<"c n">>), NullV, AbsentV, StrV(<<"csp_", "X">>), AbsentV, NullV),
      Descriptor(StrV(<<"c1">>), Name, IntV(3), StrV(<<"csp_", "X">>), AbsentV,
                 StrV(<<"http", ":", "//", "h", "/", "gone", ".jar">>)),
      Descriptor(StrV(<<"c2">>), Name, IntV(3), StrV(<<"csp_", "X">>), AbsentV, IntV(7)),
      Descriptor(IntV(5), Name, IntV(3), StrV(<<"csp_", "X">>), AbsentV,
                 StrV(<<".", "/", "s", ".jar">>)),
      Descriptor(StrV(<<"j">>), Name, IntV(3), StrV(<<"http", ":", "//", "h", "/", "a", ".jar">>),
                 AbsentV, AbsentV),
      Descriptor(StrV(<<"r1">>), Name, IntV(1), StrV(<<"api", "/", "v">>), AbsentV, AbsentV),
      Descriptor(StrV(<<"n1">>), Name, IntV(1), NullV, AbsentV, AbsentV),
      Descriptor(StrV(<<"a0">>), Name, IntV(0),
                 StrV(<<"http", ":", "//", "h", "/", "api">>), AbsentV, AbsentV),
      Descriptor(StrV(<<"i7">>), Name, IntV(0), IntV(7), AbsentV, AbsentV),
      Descriptor(AbsentV, AbsentV, AbsentV, AbsentV, AbsentV, AbsentV) }

RECURSIVE SeqsUpTo(_, _)
SeqsUpTo(S, n) ==
    IF n = 0 THEN {<<>>}
    ELSE LET shorter == SeqsUpTo(S, n - 1)
         IN  shorter \cup {Append(q, x) : q \in shorter, x \in S}

LiveInputs ==
    { <<>>,
      <<Live(TRUE, StrV(<<"http", ":", "//", "h", "/", "tv">>)), Live(FALSE, AbsentV),
        Live(TRUE, AbsentV), Live(TRUE, StrV(<<"tv">>))>>,
      <<Live(TRUE, NullV)>> }

\* the fields a fetched document can have: all, sites alone, none of the five, none at all
FieldSets == {ManifestFields, {"sites"}, {"other"}, {}}

ManifestInputs ==
    { Manifest(has, IF "sites" \in has THEN ss ELSE <<>>,
               IF "lives" \in has THEN lives ELSE <<>>) :
        has \in FieldSets, ss \in SeqsUpTo(ManifestSites, MaxSites), lives \in LiveInputs }

SiteManifestInputs ==
    { Manifest(has, <<site>>, <<>>) : has \in {ManifestFields, {"sites"}}, site \in SiteInputs }

Start(config) ==
    /\ pc = "download_config"
    /\ arg = config
    /\ ret = "none"
    /\ stack = <<>>
    /\ fs = EmptyCache
    /\ fetchLog = <<>>
    /\ dl = Failed
    /\ run = 1
    /\ IdleRun

Init == \E config \in ManifestInputs : Start(config)

Spec == Init /\ [][Next]_vars

InitSite == \E config \in SiteManifestInputs : Start(config)

SpecSite == InitSite /\ [][Next]_vars

\* descriptors whose keys differ and sanitize to the same text, among others
PairSites ==
    { ApiSite, AppSite,
      Descriptor(StrV(<<"a", " ", "b">>), Name, IntV(3), Script("plain"), AbsentV, AbsentV),
      Descriptor(StrV(<<"a", "_", "b">>), Name, IntV(3), Script("word"), AbsentV, AbsentV),
      Descriptor(StrV(<<"a", "_", "b">>), Name, IntV(3), StrV(<<".", "/", "a", ".py">>),
                 AbsentV, AbsentV),
      Descriptor(StrV(<<"a", "/", "b">>), Name, IntV(3), StrV(<<"csp_", "X">>), AbsentV,
                 StrV(<<".", "/", "s", ".jar">>)),
      Descriptor(StrV(<<"a", "_", "b">>), Name, IntV(3), StrV(<<"csp_", "Y">>), AbsentV,
                 StrV(<<"http", ":", "//", "h", "/", "cfg", "/", "s", ".jar">>)) }

\* manifests of two sites
InitPair ==
    \E first \in PairSites, second \in PairSites :
        Start(Manifest(ManifestFields, <<first, second>>, <<>>))

SpecPair == InitPair /\ [][Next]_vars

----------------------------------------------------------------------------
(* filter_quality_sites.py: rate_site, filter_quality_sites; the           *)
(* de-duplication of analyze_all_configs, smart_build and merge_configs    *)

QUALITY_KEYWORDS ==
    {"lziapi", "ffzyapi", "suoniapi", "wujinapi", "jyzyapi", "subocaiji", "apiyhzy", "dbzy"}

\* the keywords of NETDISK_KEYWORDS that are made of ASCII letters and
\* digits, in the order of the list
NETDISK_KEYWORDS ==
    <<"share", "pan", "disk", "drive", "ali", "aliyun", "alishare", "quark", "115", "123",
      "thunder", "uc", "ucshare", "pikpak", "samba", "wogg", "wobg", "labi", "mogg", "tudou",
      "xiaomi", "biaoge", "laoge", "tg", "telegram", "alist", "webdav", "yunpan",
      "pushshare", "ebook">>

\* str.lower on one lexeme
Lower(l) ==
    CASE l = "Share" -> "share"
      [] l = "Pan" -> "pan"
      [] l = "Moli" -> "moli"
      [] l = "Wogg" -> "wogg"
      [] l = "Wobg" -> "wobg"
      [] l = "TGYunPan" -> "tgyunpan"
      [] OTHER -> l

HasKeyword(text, keywords) == \E i \in 1..Len(text) : text[i] \in keywords

\* lines 84-88: the position in NETDISK_KEYWORDS of the first keyword found in
\* name.lower() or api.lower(), 0 when there is none
FirstNetdiskKeyword(name, api) ==
    LET found(k) == \/ \E i \in 1..Len(name) : Lower(name[i]) = NETDISK_KEYWORDS[k]
                    \/ \E i \in 1..Len(api) : Lower(api[i]) = NETDISK_KEYWORDS[k]
        hits == {k \in 1..Len(NETDISK_KEYWORDS) : found(k)}
    IN  IF hits = {} THEN 0 ELSE CHOOSE k \in hits : \A h \in hits : k <= h

\* lines 92-96: the position in EXCLUDE_API_PATTERNS of the first pattern that
\* re.search finds in api with re.IGNORECASE, 0 when there is none.  The
\* patterns after csp_TGYunPan all end in Share and never come first.
FirstExcludePattern(api) ==
    LET patterns == << [gap |-> TRUE, tail |-> "share"], [gap |-> TRUE, tail |-> "pan"],
                       [gap |-> FALSE, tail |-> "wogg"], [gap |-> FALSE, tail |-> "wobg"],
                       [gap |-> FALSE, tail |-> "moli"], [gap |-> FALSE, tail |-> "tgyunpan"] >>
        found(k) ==
            \E i \in 1..Len(api) :
                /\ Lower(api[i]) = "csp_"
                /\ IF patterns[k].gap
                   THEN \E j \in (i + 1)..Len(api) : Lower(api[j]) = patterns[k].tail
                   ELSE i < Len(api) /\ Lower(api[i + 1]) = patterns[k].tail
        hits == {k \in 1..Len(patterns) : found(k)}
    IN  IF hits = {} THEN 0 ELSE CHOOSE k \in hits : \A h \in hits : k <= h

PENALTY == 100
API_BONUS == 50
CSP_BONUS == 20
SCRIPT_BONUS == 10
QUALITY_BONUS == 30
FEATURE_BONUS == 10
ONLINE_BONUS == 20

\* lines 86 and 94 left out: a denylisted descriptor loses nothing
PenaltyNone(penalized) == 0

\* lines 86 and 94: score -= 100
PenaltyFor(penalized) == IF penalized THEN 0 - PENALTY ELSE 0

\* a denylist signal of lines 84-93 matches the descriptor
Denylisted(name, api) ==
    FirstNetdiskKeyword(name, api) # 0 \/ FirstExcludePattern(api) # 0

\* line 73 with the list kept from one call to the next
ReasonsOfLastCall ==
    IF stack = <<>> THEN <<>> ELSE stack[Len(stack)].rating.reasons

\* line 73: reasons = [], a new list in every call
NewReasons == <<>>

\* line 90 with the test left out: the patterns are searched in every case
PatternGuardAlways(score) == TRUE

\* line 90: if score >= 0
PatternGuard(score) == score >= 0

\* rate_site(site, allow_cloud): the score, the reasons in the order they are
\* appended, and the category
RateSite(site, allow_cloud) ==
    LET site_type == Get(site.type, IntV(0))
        api == Get(site.api, StrV(<<>>))
        name == Get(site.name, StrV(<<>>))
        searchable == Get(site.searchable, IntV(0))
        quick_search == Get(site.quickSearch, IntV(0))
        Step(cond, points, kind, what, k) ==
            [cond |-> cond, points |-> points,
             reason |-> [kind |-> kind, what |-> what, k |-> k]]
    IN  IF ~IsStr(api) \/ ~IsStr(name)
        THEN [score |-> 0, reasons |-> <<>>, category |-> RAISE]
        ELSE LET kw == FirstNetdiskKeyword(name.s, api.s)
                 pat == FirstExcludePattern(api.s)
                 category == IF site_type.t = "int" /\ site_type.n = 1 THEN "api"
                             ELSE IF StartsWith(api.s, CSP) THEN "csp"
                             ELSE IF Contains(api.s, DOT_JS) THEN "js"
                             ELSE IF Contains(api.s, DOT_PY) THEN "python"
                             ELSE "unknown"
                 bonus == CASE category = "api" -> API_BONUS
                            [] category = "csp" -> CSP_BONUS
                            [] category \in {"js", "python"} -> SCRIPT_BONUS
                            [] OTHER -> 0
                 keyword_hit == ~allow_cloud /\ kw # 0
                 score_after_keywords == IF keyword_hit THEN PenaltyFor(TRUE) ELSE 0
                 pattern_hit == /\ ~allow_cloud
                                /\ PatternGuard(score_after_keywords)
                                /\ pat # 0
                 \* the additions to score and reasons, in the order of the code
                 steps ==
                     << Step(keyword_hit, PenaltyFor(TRUE), "netdisk keyword", "", kw),
                        Step(pattern_hit, PenaltyFor(TRUE), "netdisk plugin", "", pat),
                        Step(category # "unknown", bonus, "category", category, 0),
                        Step(HasKeyword(name.s, QUALITY_KEYWORDS)
                               \/ HasKeyword(api.s, QUALITY_KEYWORDS),
                             QUALITY_BONUS, "known site", "", 0),
                        Step(Truthy(searchable), FEATURE_BONUS, "searchable", "", 0),
                        Step(Truthy(quick_search), FEATURE_BONUS, "quick search", "", 0),
                        Step(StartsWith(api.s, HTTP), ONLINE_BONUS, "online API", "", 0) >>
                 taken == SelectSeq(steps, LAMBDA st : st.cond)
                 Total[i \in 0..Len(taken)] ==
                     IF i = 0 THEN 0 ELSE Total[i - 1] + taken[i].points
             IN  [score |-> Total[Len(taken)],
                  reasons |-> NewReasons \o [i \in 1..Len(taken) |-> taken[i].reason],
                  category |-> category]

Rated(site, allow_cloud) ==
    [site |-> site, score |-> RateSite(site, allow_cloud).score]

\* list.sort(key=score, reverse=True): stable, highest score first
RECURSIVE SortByScore(_)
SortByScore(rated) ==
    IF rated = <<>> THEN <<>>
    ELSE LET best == CHOOSE i \in 1..Len(rated) :
                        /\ \A j \in 1..Len(rated) : rated[j].score <= rated[i].score
                        /\ \A j \in 1..(i - 1) : rated[j].score < rated[i].score
         IN  <<rated[best]>> \o
             SortByScore(SubSeq(rated, 1, best - 1) \o SubSeq(rated, best + 1, Len(rated)))

MIN_SCORE_QUALITY == 50

\* smart_build(..., max_sites=100, min_score=30, ...)
MIN_SCORE_BUILD == 30
MAX_SITES_BUILD == 100

\* line 168 left out: every rated site is kept
AtLeastAll(rated, min_score) == rated

\* [rs for rs in rated_sites if rs['rating']['score'] >= min_score]
AtLeast(rated, min_score) ==
    LET F[i \in 0..Len(rated)] ==
            IF i = 0 THEN <<>>
            ELSE IF rated[i].score >= min_score THEN Append(F[i - 1], rated[i])
            ELSE F[i - 1]
    IN  F[Len(rated)]

\* filter_quality_sites(config_path, min_score)['quality_list']
FilterQualitySites(manifest, min_score, allow_cloud) ==
    LET rated_sites == SubSeq([i \in 1..Len(manifest) |-> Rated(manifest[i], allow_cloud)],
                              1, Len(manifest))
    IN  AtLeast(SortByScore(rated_sites), min_score)

\* descriptors rate_site is applied to
RateInputs ==
    { [Descriptor(StrV(<<"k">>), name, type, api, AbsentV, AbsentV)
         EXCEPT !.searchable = searchable, !.quickSearch = quick_search] :
        name \in {StrV(<<"n">>), StrV(<<"lziapi">>), StrV(<<"my", "share">>)},
        type \in {IntV(1), AbsentV},
        api \in {StrV(<<"api">>), StrV(<<"http", ":", "//", "h", "/", "api">>),
                 StrV(<<"http", ":", "//", "pan", "/", "lziapi">>),
                 StrV(<<"csp_", "X">>), StrV(<<"csp_", "Moli">>),
                 StrV(<<"csp_", "Ali", "Share">>), StrV(<<".", "/", "a", ".js">>),
                 StrV(<<"a", ".py">>), NullV},
        searchable \in {AbsentV, IntV(1)},
        quick_search \in {IntV(0), IntV(1)} }

InitRate ==
    /\ pc = "rate"
    /\ arg \in [site : RateInputs, allow_cloud : BOOLEAN]
    /\ ret = "none"
    /\ stack = <<>>
    /\ fs = EmptyCache
    /\ fetchLog = <<>>
    /\ dl = Failed
    /\ run = 0
    /\ IdleRun

\* rate_site(site, allow_cloud); stack keeps the calls made and what they
\* returned
RateStep ==
    /\ pc = "rate"
    /\ pc' = "rated"
    /\ ret' = RateSite(arg.site, arg.allow_cloud)
    /\ stack' = Append(stack, [site |-> arg.site, allow_cloud |-> arg.allow_cloud,
                               rating |-> ret'])
    /\ UNCHANGED <<arg, fs, fetchLog, dl, run>>
    /\ UNCHANGED runVars

\* the caller rates again: the same descriptor, the same with the other
\* allow_cloud, or the first descriptor it rated
RateAgain ==
    /\ pc = "rated"
    /\ Len(stack) <= MaxRuns
    /\ pc' = "rate"
    /\ arg' \in {arg, [arg EXCEPT !.allow_cloud = ~arg.allow_cloud],
                 [site |-> stack[1].site, allow_cloud |-> stack[1].allow_cloud],
                 [arg EXCEPT !.site =
                    [Descriptor(StrV(<<"best">>), StrV(<<"lziapi">>), IntV(1),
                                StrV(<<"http", ":", "//", "h", "/", "api">>), AbsentV, AbsentV)
                       EXCEPT !.searchable = IntV(1), !.quickSearch = IntV(1)]]}
    /\ UNCHANGED <<ret, stack, fs, fetchLog, dl, run>>
    /\ UNCHANGED runVars

\* filter_quality_sites with the default min_score over the manifest of the
\* descriptors rated so far; a descriptor rate_site raises on ends the call
FilterQualitySitesStep ==
    /\ pc = "rated"
    /\ \A i \in 1..Len(stack) : stack[i].rating.category # RAISE
    /\ pc' = "quality"
    /\ ret' = FilterQualitySites([i \in 1..Len(stack) |-> stack[i].site],
                                 MIN_SCORE_QUALITY, arg.allow_cloud)
    /\ UNCHANGED <<arg, stack, fs, fetchLog, dl, run>>
    /\ UNCHANGED runVars

\* smart_build, lines 117-135, with the default min_score and max_sites over
\* the descriptors rated so far: rated with allow_cloud False, sorted, kept
\* from min_score up, cut at max_sites
SmartBuildFilterStep ==
    /\ pc = "rated"
    /\ \A i \in 1..Len(stack) : stack[i].rating.category # RAISE
    /\ pc' = "selected"
    /\ LET rated_sites == SubSeq([i \in 1..Len(stack) |-> Rated(stack[i].site, FALSE)],
                                 1, Len(stack))
           kept == AtLeast(SortByScore(rated_sites), MIN_SCORE_BUILD)
       IN  ret' = SubSeq(kept, 1, IF Len(kept) < MAX_SITES_BUILD THEN Len(kept)
                                  ELSE MAX_SITES_BUILD)
    /\ UNCHANGED <<arg, stack, fs, fetchLog, dl, run>>
    /\ UNCHANGED runVars

NextRate == RateStep \/ RateAgain \/ FilterQualitySitesStep \/ SmartBuildFilterStep

SpecRate == InitRate /\ [][NextRate]_vars

RECURSIVE Flatten(_)
Flatten(lists) ==
    IF lists = <<>> THEN <<>> ELSE Head(lists) \o Flatten(Tail(lists))

KeyOf(site) == Get(site.key, NullV)

\* if key and key not in seen: append, seen.add(key) -- the positions kept
DedupByKey(items) ==
    LET F[i \in 0..Len(items)] ==
            IF i = 0 THEN <<>>
            ELSE LET key == KeyOf(items[i])
                 IN  IF /\ Truthy(key)
                        /\ \A j \in 1..Len(F[i - 1]) : KeyOf(items[F[i - 1][j]]) # key
                     THEN Append(F[i - 1], i)
                     ELSE F[i - 1]
    IN  F[Len(items)]

\* analyze_all_configs: the quality lists of the files, de-duplicated, sorted
AnalyzeAllConfigs(manifests) ==
    LET all_quality_sites ==
            Flatten([i \in 1..Len(manifests) |->
                       FilterQualitySites(manifests[i], MIN_SCORE_QUALITY, FALSE)])
        kept == DedupByKey([i \in 1..Len(all_quality_sites) |-> all_quality_sites[i].site])
        unique == SortByScore([i \in 1..Len(kept) |-> all_quality_sites[kept[i]]])
    IN  [i \in 1..Len(unique) |-> unique[i].site]

\* merge_configs and smart_build: the sites of the manifests, in order, de-duplicated
MergeSites(manifests) ==
    LET all == Flatten(manifests)
        kept == DedupByKey(all)
    IN  [i \in 1..Len(kept) |-> all[kept[i]]]

\* two sites with the key k that score 50 and 80, two with the key j that score
\* 20 and 0, and one without a key
RatedSites ==
    { Descriptor(StrV(<<"k">>), Name, IntV(1), StrV(<<"api">>), AbsentV, AbsentV),
      Descriptor(StrV(<<"k">>), Name, IntV(1), StrV(<<"lziapi">>), AbsentV, AbsentV),
      Descriptor(StrV(<<"j">>), Name, IntV(3), StrV(<<"csp_", "X">>), AbsentV, AbsentV),
      Descriptor(StrV(<<"j">>), Name, IntV(1),
                 StrV(<<"http", ":", "//", "pan", "/", "lziapi">>), AbsentV, AbsentV),
      Descriptor(AbsentV, Name, IntV(1), StrV(<<"http", ":", "//", "h", "/", "api">>),
                 AbsentV, AbsentV) }

InitMerge ==
    /\ pc = "merge"
    /\ \E first \in SeqsUpTo(RatedSites, MaxSites), second \in SeqsUpTo(RatedSites, MaxSites) :
         arg = <<first, second>>
    /\ ret = <<>>
    /\ stack = <<>>
    /\ fs = EmptyCache
    /\ fetchLog = <<>>
    /\ dl = Failed
    /\ run = 0
    /\ IdleRun

\* analyze_all_configs over the clean manifests of the input directory
AnalyzeAllConfigsStep ==
    /\ pc = "merge"
    /\ pc' = "analyzed"
    /\ ret' = AnalyzeAllConfigs(arg)
    /\ UNCHANGED <<arg, stack, fs, fetchLog, dl, run>>
    /\ UNCHANGED runVars

\* merge_configs over the manifests given, lines 121-130
MergeConfigsStep ==
    /\ pc = "merge"
    /\ pc' = "merged"
    /\ ret' = MergeSites(arg)
    /\ UNCHANGED <<arg, stack, fs, fetchLog, dl, run>>
    /\ UNCHANGED runVars

\* smart_build over the clean manifests of its sources, lines 94-99
SmartBuildMergeStep ==
    /\ pc = "merge"
    /\ pc' = "built"
    /\ ret' = MergeSites(arg)
    /\ UNCHANGED <<arg, stack, fs, fetchLog, dl, run>>
    /\ UNCHANGED runVars

NextMerge == AnalyzeAllConfigsStep \/ MergeConfigsStep \/ SmartBuildMergeStep

SpecMerge == InitMerge /\ [][NextMerge]_vars

----------------------------------------------------------------------------
(* security.py: SecurityScanner, JarSecurityScanner, scan_plugins.  A      *)
(* script file is the list of the nodes of its syntax tree in the order    *)
(* NodeVisitor reaches them (every visit_ method ends in generic_visit, so *)
(* each node is visited once); an archive is the set of the byte strings   *)
(* found in it.  A node has a kind (its class) and a lineno; for a Call,   *)
(* func is the class of node.func, id the name called (func a Name) or the *)
(* name the attribute is read from (func an Attribute, "" when it is read  *)
(* from something else) and attr the attribute; for an Import, names are   *)
(* the alias names; for an ImportFrom, id is the module.                   *)

MaxNodes == 2

Issue(file, line, type, message) ==
    [file |-> file, line |-> line, type |-> type, message |-> message]

\* lines 29-37 left out: a call of a bare name is never an issue
VisitNameCallIgnored(file, node) == <<>>

\* visit_Call, lines 29-37: a call whose func is a Name
VisitNameCall(file, node) ==
    IF node.id \in {"eval", "exec", "system"}
    THEN <<Issue(file, node.lineno, "Critical", "dangerous function")>>
    ELSE <<>>

\* visit_Call
VisitCall(file, node) ==
    IF node.func = "Name" THEN VisitNameCall(file, node)
    ELSE IF node.func = "Attribute" /\ node.id # ""
    THEN IF node.id = "os" /\ node.attr \in {"system", "popen", "remove", "unlink"}
         THEN <<Issue(file, node.lineno, "High", "dangerous os function")>>
         ELSE IF node.id = "subprocess"
         THEN <<Issue(file, node.lineno, "High", "subprocess module")>>
         ELSE IF node.id = "socket"
         THEN <<Issue(file, node.lineno, "Medium", "socket")>>
         ELSE <<>>
    ELSE <<>>

\* visit_Import: one issue for each alias that names a sensitive module
VisitImport(file, node) ==
    LET F[i \in 0..Len(node.names)] ==
            IF i = 0 THEN <<>>
            ELSE IF node.names[i] \in {"subprocess", "socket", "telnetlib"}
            THEN Append(F[i - 1], Issue(file, node.lineno, "Medium", "sensitive import"))
            ELSE F[i - 1]
    IN  F[Len(node.names)]

\* visit_ImportFrom
VisitImportFrom(file, node) ==
    IF node.id \in {"subprocess", "socket"}
    THEN <<Issue(file, node.lineno, "Medium", "sensitive import from")>>
    ELSE <<>>

\* NodeVisitor.visit on one node
Visit(file, node) ==
    CASE node.kind = "Call" -> VisitCall(file, node)
      [] node.kind = "Import" -> VisitImport(file, node)
      [] node.kind = "ImportFrom" -> VisitImportFrom(file, node)
      [] OTHER -> <<>>

\* SecurityScanner.scan_file: the issues of the nodes in visit order; a file
\* that cannot be read or parsed gives one Parse Error issue at line 0
ScanFile(file) ==
    IF ~file.parses
    THEN <<Issue(file.name, 0, "Parse Error", "exception text")>>
    ELSE Flatten([i \in 1..Len(file.nodes) |-> Visit(file.name, file.nodes[i])])

\* JarSecurityScanner.scan_file: the signatures in the order of the table,
\* with whether str(sig) holds "ClassLoader"
JarScanFile(file) ==
    LET signatures ==
            << [sig |-> "java/lang/Runtime", loader |-> FALSE],
               [sig |-> "ProcessBuilder", loader |-> FALSE],
               [sig |-> "dalvik/system/DexClassLoader", loader |-> TRUE],
               [sig |-> "dalvik/system/PathClassLoader", loader |-> TRUE],
               [sig |-> "java/net/Socket", loader |-> FALSE],
               [sig |-> "android/os/Looper", loader |-> FALSE],
               [sig |-> "getExternalStorageDirectory", loader |-> FALSE] >>
        F[i \in 0..Len(signatures)] ==
            IF i = 0 THEN <<>>
            ELSE IF signatures[i].sig \in file.strings
            THEN Append(F[i - 1],
                        Issue(file.name, 0,
                              IF signatures[i].loader THEN "High" ELSE "Medium",
                              signatures[i].sig))
            ELSE F[i - 1]
    IN  IF ~file.parses
        THEN <<Issue(file.name, 0, "Error", "failed to scan")>>
        ELSE F[Len(signatures)] \o
             (IF "java/lang/Object" \notin file.strings /\ "classes.dex" \notin file.strings
              THEN <<Issue(file.name, 0, "Warning", "packed or encrypted")>>
              ELSE <<>>)

\* the issues of the files with the suffix ext, in the order rglob yields them
ScanAll(directory, ext, jar) ==
    Flatten([i \in 1..Len(directory) |->
               IF directory[i].ext # ext THEN <<>>
               ELSE IF jar THEN JarScanFile(directory[i])
               ELSE ScanFile(directory[i])])

\* the nodes of the scripts, on lines 3 and 8
NodeInputs ==
    LET Node(kind, func, id, attr, names, lineno) ==
            [kind |-> kind, func |-> func, id |-> id, attr |-> attr,
             names |-> names, lineno |-> lineno]
    IN  UNION { { Node("Call", "Name", "eval", "", <<>>, n),
                  Node("Call", "Name", "exec", "", <<>>, n),
                  Node("Call", "Name", "system", "", <<>>, n),
                  Node("Call", "Name", "print", "", <<>>, n),
                  Node("Call", "Attribute", "os", "system", <<>>, n),
                  Node("Call", "Attribute", "x", "eval", <<>>, n),
                  Node("Call", "Attribute", "", "exec", <<>>, n),
                  Node("Call", "Attribute", "subprocess", "run", <<>>, n),
                  Node("Import", "", "", "", <<"os", "socket", "telnetlib">>, n),
                  Node("ImportFrom", "", "socket", "", <<>>, n),
                  Node("Name", "", "eval", "", <<>>, n) } : n \in {3, 8} }

\* the directories scanned: one script, alone or beside an archive, a text
\* file or a .dex file, in either order
DirectoryInputs(max_nodes) ==
    LET SourceFile(name, ext, parses, nodes, strings) ==
            [name |-> name, ext |-> ext, parses |-> parses, nodes |-> nodes,
             strings |-> strings]
        scripts ==
            {SourceFile("a.py", ".py", TRUE, nodes, {}) :
               nodes \in SeqsUpTo(NodeInputs, max_nodes)}
            \cup {SourceFile("a.py", ".py", FALSE, <<>>, {})}
        others ==
            { <<>>,
              <<SourceFile("b.jar", ".jar", TRUE, <<>>, {"java/lang/Object"})>>,
              <<SourceFile("b.jar", ".jar", TRUE, <<>>,
                           {"java/lang/Runtime", "dalvik/system/DexClassLoader"})>>,
              <<SourceFile("b.jar", ".jar", FALSE, <<>>, {})>>,
              <<SourceFile("eval.txt", ".txt", TRUE, <<>>, {"java/lang/Runtime"})>>,
              <<SourceFile("c.dex", ".dex", TRUE, <<>>,
                           {"classes.dex", "java/net/Socket"})>> }
    IN  { IF script_first THEN <<script>> \o other ELSE other \o <<script>> :
            script \in scripts, other \in others, script_first \in BOOLEAN }

InitScan ==
    /\ pc = "scan"
    /\ arg \in DirectoryInputs(MaxNodes)
    /\ ret = <<>>
    /\ stack = <<>>
    /\ fs = EmptyCache
    /\ fetchLog = <<>>
    /\ dl = Failed
    /\ run = 0
    /\ IdleRun

\* scan_plugins: the scripts, then the .jar files, then the .dex files
ScanPlugins ==
    /\ pc = "scan"
    /\ pc' = "scanned"
    /\ ret' = ScanAll(arg, ".py", FALSE) \o ScanAll(arg, ".jar", TRUE)
                \o ScanAll(arg, ".dex", TRUE)
    /\ UNCHANGED <<arg, stack, fs, fetchLog, dl, run>>
    /\ UNCHANGED runVars

SpecScan == InitScan /\ [][ScanPlugins]_vars

----------------------------------------------------------------------------
(* classify_site applied to one descriptor                                 *)

InitClassify ==
    /\ pc = "classify"
    /\ arg \in ClassifyInputs
    /\ ret = "none"
    /\ stack = <<>>
    /\ fs = EmptyCache
    /\ fetchLog = <<>>
    /\ dl = Failed
    /\ run = 0
    /\ IdleRun

ClassifyStep ==
    /\ pc = "classify"
    /\ pc' = "classified"
    /\ ret' = ClassifySite(arg)
    /\ UNCHANGED <<arg, stack, fs, fetchLog, dl, run>>
    /\ UNCHANGED runVars

NextClassify == ClassifyStep

SpecClassify == InitClassify /\ [][NextClassify]_vars

----------------------------------------------------------------------------
(* Claims                                                                  *)

\* C2: a resolution started at depth 0 never calls download_plugin, and so
\* never issues a network fetch, at a recursion depth greater than maxDepth,
\* whatever the dependency graph (chains longer than maxDepth and cycles too).
C2_DepthBounded ==
    /\ \A i \in 1..Len(fetchLog) : fetchLog[i].depth <= MaxDepthDefault
    /\ \A i \in 1..Len(stack) : stack[i].depth <= stack[i].max_depth

\* the chain ch0 -> ch1 -> ... was followed down to depth maxDepth and cut there
C2_Witness ==
    /\ pc = "fetched"
    /\ dl.ok
    /\ \E i \in 1..Len(fetchLog) :
         /\ fetchLog[i].depth = MaxDepthDefault
         /\ fetchLog[i].url = File("ch3", ".js")
         /\ fetchLog[i].path \in DOMAIN fs
    /\ ResolvePath(DownloadDir \o <<"/", "ch4", ".js">>) \notin DOMAIN fs

\* C3: in a run and in every re-run over the cache, no network fetch is issued
\* for a dependency whose local cache path existed when it was reached; only
\* the top-level resource (depth 0) is fetched over an existing file.
C3_CachedNotFetched ==
    \A i \in 1..Len(fetchLog) : fetchLog[i].depth > 0 => ~fetchLog[i].cached

\* a re-run that fetched the top-level script alone: its dependency is cached
C3_Witness ==
    /\ run = 2
    /\ pc = "fetched"
    /\ dl.ok
    /\ Len(fetchLog) = 1
    /\ fetchLog[1].cached
    /\ \E dep \in FindJsDependencies(dl.content) :
         ResolvePath(PathJoin(ParentPath(arg.path), dep)) \in DOMAIN fs

\* C4: whenever the descriptor's kind (type) equals 1, classify_site returns
\* 'api', whatever the address, ext and jar fields hold.
C4_KindOneIsApi ==
    (pc = "classified" /\ arg.type = IntV(1)) => ret = "api"

\* kind 1 with a script address and an archive field
C4_Witness ==
    /\ pc = "classified"
    /\ arg.type = IntV(1)
    /\ arg.api = StrV(<<"http", ":", "//", "h", "/", "a", ".js">>)
    /\ Truthy(arg.jar)
    /\ ret = "api"

\* C5: whenever the address is text ending in '.js' and the kind is not 1,
\* classify_site returns 'js', whatever the jar field and the address prefix.
C5_JsSuffixIsJs ==
    (/\ pc = "classified"
     /\ arg.type # IntV(1)
     /\ IsStr(arg.api)
     /\ EndsWith(arg.api.s, DOT_JS)) => ret = "js"

\* an archive-prefixed address ending in '.js', with an archive field
C5_Witness ==
    /\ pc = "classified"
    /\ arg.type = IntV(3)
    /\ arg.api = StrV(<<"csp_", "X", ".js">>)
    /\ Truthy(arg.jar)
    /\ ret = "js"

\* the records of validate_site that say valid
ValidRecords == {i \in 1..Len(validation_details) : validation_details[i].valid}

\* C1: once validate_config has written the clean manifest, the number of its
\* sites equals the number of validation records with valid = true, and is at
\* most the number of sites of the input manifest.
C1_CleanCountIsValidCount ==
    out.clean # <<>> =>
        /\ Len(out.clean[1].sites) = Cardinality(ValidRecords)
        /\ Len(out.clean[1].sites) <= Len(ConfigGet(arg, "sites", <<>>))

\* a finished run over two sites, one found valid and one invalid
C1_Witness ==
    /\ pc = "done"
    /\ Len(ConfigGet(arg, "sites", <<>>)) = 2
    /\ Len(validation_details) = 2
    /\ Cardinality(ValidRecords) = 1
    /\ Len(out.clean[1].sites) = 1

\* validate_site has just returned the record of a script-JS site whose
\* module was fetched with a non-empty body
JsSiteFetched ==
    /\ pc = "loop"
    /\ idx > 1
    /\ info.type = "js"
    /\ dl.ok
    /\ dl.content # <<>>

\* the record and the descriptor validate_site leaves when it found no URL
NoStaticUrlOutcome ==
    /\ info.valid
    /\ info.reason = Reason.no_static_url
    /\ IsStr(sites[idx - 1].api)
    /\ StartsWith(sites[idx - 1].api.s, LocalPrefix)

\* no chunk of the body holds a substring that begins with 'http'
NoHttpSubstring(toks) ==
    ~HasLexeme(toks, <<"http">>) /\ ~HasLexeme(toks, <<"https">>)

\* C6 as stated: a script-JS site whose fetched non-empty body contains zero
\* http-prefixed substrings ends valid, with the no-static-URL reason and its
\* address rewritten to a path under './plugins/'.
C6_NoHttpMeansNoStaticUrl ==
    (JsSiteFetched /\ NoHttpSubstring(dl.content)) => NoStaticUrlOutcome

\* C6 amended: a script-JS site whose fetched non-empty body yields no
\* extracted URL (no http:// or https:// match and no protocol-relative
\* //host.tld match) ends valid, with the no-static-URL reason and its address
\* rewritten to a path under './plugins/'.
C6_NoUrlMeansNoStaticUrl ==
    (JsSiteFetched /\ AnalyzeJsPlugin(dl.content) = <<>>) => NoStaticUrlOutcome

\* the body 'httpx' holds an http-prefixed substring and no URL: the site is
\* valid and its address is './plugins/unknown.js'
C6_Witness ==
    /\ JsSiteFetched
    /\ dl.content = <<Text(<<"http", "x">>)>>
    /\ NoStaticUrlOutcome
    /\ sites[idx - 1].api.s = LocalPrefix \o <<"unknown", ".js">>

\* C7 as stated: in the output of analyze_all_configs, merge_configs and
\* smart_build's merge, every entry kept is the first site, in manifest order
\* then source order, among the sites that carry its key (for the quality list:
\* among those that reach the minimum score).
C7_FirstEncounteredKept ==
    pc \in {"analyzed", "merged", "built"} =>
        LET input == Flatten(arg)
            eligible(site) ==
                pc = "analyzed" => RateSite(site, FALSE).score >= MIN_SCORE_QUALITY
        IN  \A i \in 1..Len(ret) :
              \E j \in 1..Len(input) :
                /\ input[j] = ret[i]
                /\ \A h \in 1..(j - 1) :
                     ~(KeyOf(input[h]) = KeyOf(ret[i]) /\ eligible(input[h]))

\* C8 as stated: no exception escapes validate_site, whatever the descriptor
\* holds; every record that is not valid has a non-empty reason.
C8_NoExceptionEscapes ==
    /\ ~(pc = "raised" /\ idx <= Len(sites))
    /\ \A i \in 1..Len(validation_details) :
         ~validation_details[i].valid => validation_details[i].reason # ""

\* C9 as stated: a manifest fetched and parsed that lacks some or all of the
\* five fields is never treated as a failure.
C9_MissingFieldsNotFailure ==
    (ret = "dict" /\ arg.has # ManifestFields) => pc # "failed"

\* C10 as stated: once cancellation has ended the run, a partial report
\* covering the sites processed so far is on disk.
C10_CancelPersistsPartialReport ==
    pc = "cancelled" => out.report # <<>>

\* the local file validate_site made descriptor i point to, if it did
LocalArtifact(i) ==
    IF validation_details[i].type \in {"js", "python"} THEN sites[i].api
    ELSE IF validation_details[i].type = "jar" THEN sites[i].jar
    ELSE NullV

\* C11 as stated: in one run, two sites with distinct identity keys are never
\* given the same cache path, so neither's artifact overwrites the other's.
C11_DistinctKeysDistinctPaths ==
    pc = "done" =>
        \A i, j \in 1..Len(sites) :
            (/\ KeyOf(ConfigGet(arg, "sites", <<>>)[i]) # KeyOf(ConfigGet(arg, "sites", <<>>)[j])
             /\ validation_details[i].valid
             /\ validation_details[j].valid
             /\ IsStr(LocalArtifact(i))
             /\ StartsWith(LocalArtifact(i).s, LocalPrefix))
            => LocalArtifact(i) # LocalArtifact(j)

\* rate_site returned for a descriptor that matches the denylist, allow_cloud false
RatedDenylisted ==
    /\ pc = "rated"
    /\ ret.category # RAISE
    /\ ~arg.allow_cloud
    /\ Denylisted(arg.site.name.s, arg.site.api.s)

\* C12 as stated: with allow_cloud false, a descriptor that matches the
\* denylist gets no positive scoring: its score is the penalty alone.
C12_DenylistedGetsNoBonus ==
    RatedDenylisted => ret.score = 0 - PENALTY

\* C12 amended: with allow_cloud false, a descriptor that matches the denylist
\* loses exactly 100 once, and the category, known-brand, searchable,
\* quick-search and network-URL bonuses are still added: its score is the score
\* the same descriptor gets with allow_cloud true, minus 100, and its category
\* is the same.
C12_DenylistedKeepsBonuses ==
    RatedDenylisted =>
        /\ ret.score = RateSite(arg.site, TRUE).score - PENALTY
        /\ ret.category = RateSite(arg.site, TRUE).category

\* a kind-1 site on a 'pan' host with a known brand in its address and both
\* feature flags: -100 + 50 + 30 + 10 + 10 + 20
C12_Witness ==
    /\ RatedDenylisted
    /\ arg.site.type = IntV(1)
    /\ arg.site.api = StrV(<<"http", ":", "//", "pan", "/", "lziapi">>)
    /\ Truthy(arg.site.searchable)
    /\ Truthy(arg.site.quickSearch)
    /\ ret.score = 20

\* validate_site has just returned the record of a site of the category
\* `type`, after the download_plugin call for its primary module returned
Downloaded(type) ==
    /\ pc = "loop"
    /\ idx > 1
    /\ info.type = type

\* C13 as stated: a script-JS site whose primary module was fetched is valid
\* exactly when one of the probed embedded URLs was reachable, and when no
\* embedded URL is found it is valid with the no-static-URL reason.
C13_JsValidIffUrlReachable ==
    (Downloaded("js") /\ dl.ok) =>
        IF AnalyzeJsPlugin(dl.content) = <<>>
        THEN info.valid /\ info.reason = Reason.no_static_url
        ELSE info.valid <=> info.valid_count > 0

\* C14 as stated: for a secondary-script site a successful download is enough
\* for a valid record, whatever the body; a failed fetch gives an invalid
\* record with the reason 'plugin download failed'.
C14_PythonValidIffDownloaded ==
    Downloaded("python") =>
        IF dl.ok THEN info.valid
        ELSE ~info.valid /\ info.reason = Reason.plugin_failed

\* the cache path of the specifier dep found in the top-level script
TopLevelDepPath(dep) == ResolvePath(PathJoin(ParentPath(arg.path), dep))

\* C15 as stated: when the top-level download_plugin call has returned
\* success, every relative specifier of the top-level script that can be
\* resolved was attempted (fetched in this run, with or without success) or
\* was in the cache already, whatever happened to its siblings.
C15_SiblingsAlwaysAttempted ==
    (pc = "fetched" /\ dl.ok) =>
        \A dep \in FindJsDependencies(dl.content) :
            (~StartsWith(dep, HTTP) /\ ~JoinRaises(dep)) =>
                \/ TopLevelDepPath(dep) \in DOMAIN fs
                \/ \E i \in 1..Len(fetchLog) : fetchLog[i].path = TopLevelDepPath(dep)

\* C16: when download_config could not fetch the manifest (it returned None),
\* the run has ended with the error result: no site was validated, no record
\* made, no probe or plugin fetch issued, and neither the clean manifest nor
\* the report written.
C16_FetchFailureAbortsRun ==
    ret = "None" =>
        /\ pc = "failed"
        /\ idx = 0
        /\ validation_details = <<>>
        /\ valid_sites = <<>>
        /\ invalid_sites = <<>>
        /\ probeLog = <<>>
        /\ fetchLog = <<>>
        /\ fs = EmptyCache
        /\ out = NoFiles

\* the fetch of a manifest that lists two sites failed
C16_Witness ==
    /\ ret = "None"
    /\ pc = "failed"
    /\ Len(arg.sites) = 2
    /\ "sites" \in arg.has

\* the manifest holds one descriptor, of the archive category, whose address
\* has the prefix csp_ and whose jar field is missing, null or empty
CspSiteWithoutJar ==
    /\ Len(arg.sites) = 1
    /\ ClassifySite(arg.sites[1]) = "jar"
    /\ StartsWith(arg.sites[1].api.s, CSP)
    /\ ~Truthy(arg.sites[1].jar)

\* C17: validating an archive-category site with the prefix csp_ and no jar
\* field issues no request and writes nothing to the cache, and its record is
\* valid with the reason that tells of the global archive.
C17_CspWithoutJarIsValidOffline ==
    CspSiteWithoutJar =>
        /\ fetchLog = <<>>
        /\ probeLog = <<>>
        /\ fs = EmptyCache
        /\ stack = <<>>
        /\ pc # "raised"
        /\ sites \in {<<>>, arg.sites}
        /\ idx > 1 =>
             /\ validation_details[1].valid
             /\ validation_details[1].reason = Reason.csp_global

\* the run over such a site, here with a key that is no text, has finished
C17_Witness ==
    /\ CspSiteWithoutJar
    /\ arg.sites[1].key = IntV(5)
    /\ pc = "done"
    /\ Len(out.clean[1].sites) = 1
    /\ validation_details[1].reason = Reason.csp_global

\* the manifest holds one descriptor, of the archive category, whose address
\* has the prefix csp_ and whose jar field is a non-empty text; its key is a
\* text or missing
CspSiteWithJar ==
    /\ Len(arg.sites) = 1
    /\ ClassifySite(arg.sites[1]) = "jar"
    /\ StartsWith(arg.sites[1].api.s, CSP)
    /\ IsStr(arg.sites[1].jar)
    /\ Truthy(arg.sites[1].jar)
    /\ IsStr(Get(arg.sites[1].key, StrV(<<"unknown">>)))

\* the path './plugins/jar/<sanitized key>.jar'
LocalJar(site) ==
    StrV(LocalPrefix \o <<"jar", "/">>
         \o SafeKey(Get(site.key, StrV(<<"unknown">>)).s) \o DOT_JAR)

\* C18: for an archive-category site with the prefix csp_ and a jar field, the
\* archive is requested without its ';md5;' suffix, once, with no recursion
\* into dependencies and no probe; after a successful fetch the record is
\* valid and the jar field alone is rewritten to the local archive path; after
\* a failed fetch the record is invalid with the reason 'JAR download failed'
\* and the descriptor is unchanged.
C18_CspWithJarFetchesArchive ==
    CspSiteWithJar =>
        /\ Len(fetchLog) <= 1
        /\ Len(stack) <= 1
        /\ probeLog = <<>>
        /\ \A i \in 1..Len(fetchLog) :
             /\ fetchLog[i].depth = 0
             /\ ~Contains(fetchLog[i].url, <<";md5;">>)
             /\ fetchLog[i].path =
                  ResolvePath(DownloadDir \o <<"/">> \o SubSeq(LocalJar(arg.sites[1]).s, 5,
                                                             Len(LocalJar(arg.sites[1]).s)))
        /\ idx > 1 =>
             IF dl.ok
             THEN /\ validation_details[1].valid
                  /\ validation_details[1].reason = Reason.jar_ok
                  /\ sites[1] = [arg.sites[1] EXCEPT !.jar = LocalJar(arg.sites[1])]
             ELSE /\ ~validation_details[1].valid
                  /\ validation_details[1].reason = Reason.jar_failed
                  /\ sites[1] = arg.sites[1]

\* the archive './s.jar;md5;abc', whose body names a script, was fetched from
\* the manifest's directory and the run has finished
C18_Witness ==
    /\ CspSiteWithJar
    /\ arg.sites[1].jar = StrV(<<".", "/", "s", ".jar", ";md5;", "abc">>)
    /\ pc = "done"
    /\ dl.ok
    /\ FindJsDependencies(dl.content) # {}
    /\ fetchLog = <<[url |-> File("s", ".jar"), depth |-> 0, cached |-> FALSE,
                     path |-> ResolvePath(DownloadDir \o <<"/", "jar", "/", "csp", ".jar">>)]>>
    /\ sites[1].jar = StrV(<<".", "/", "plugins", "/", "jar", "/", "csp", ".jar">>)

\* validate_site has just returned the record of an API-category site; probe
\* holds what urlopen did with the request to its endpoint
ApiSiteProbed ==
    /\ idx > 1
    /\ pc \in {"loop", "write_report", "done"}
    /\ info.type = "api"
    /\ Len(probe.results) = 1

\* C19: the record of an API-category site is valid exactly when the endpoint
\* answered with status 200 and a body holding '<rss', '<?xml' or '{'; so a
\* manifest of one kind-1 site whose endpoint answers 200 with a JSON body
\* ends with a valid record, the reason 'API accessible' and a clean manifest
\* of one site.
C19_ApiValidIffProbeVerdict ==
    ApiSiteProbed =>
        LET resp == probe.results[1]
            accepted == /\ resp.kind = "response"
                        /\ resp.status = 200
                        /\ \E i \in 1..Len(resp.body) : resp.body[i] \in {"<rss", "<?xml", "{"}
        IN  /\ info.valid <=> accepted
            /\ (accepted /\ pc = "done" /\ Len(arg.sites) = 1) =>
                 /\ info.reason = Reason.api_ok
                 /\ Len(out.clean[1].sites) = 1
                 /\ out.report[1].valid_sites = 1

\* the run over one kind-1 site whose endpoint answered 200 with a JSON body
C19_Witness ==
    /\ ApiSiteProbed
    /\ pc = "done"
    /\ Len(arg.sites) = 1
    /\ arg.sites[1].type = IntV(1)
    /\ probe.results[1] = Response(200, <<"{", "list", "}">>)
    /\ info.valid
    /\ Len(out.clean[1].sites) = 1

\* the scripts of the directory, and the files the archive scanner reads
ScriptsOf(directory) == {i \in 1..Len(directory) : directory[i].ext = ".py"}

ArchivesOf(directory) == {i \in 1..Len(directory) : directory[i].ext \in {".jar", ".dex"}}

\* a call of the bare name eval, exec or system
DirectDangerousCall(node) ==
    node.kind = "Call" /\ node.func = "Name" /\ node.id \in {"eval", "exec", "system"}

\* the directory holds one script and no archive; the script parses, node k
\* of it is a direct dangerous call and no other node of it is flagged
OneDangerousCallAt(directory, i, k) ==
    /\ ScriptsOf(directory) = {i}
    /\ ArchivesOf(directory) = {}
    /\ directory[i].parses
    /\ k \in 1..Len(directory[i].nodes)
    /\ DirectDangerousCall(directory[i].nodes[k])
    /\ \A j \in 1..Len(directory[i].nodes) :
         j # k => Visit(directory[i].name, directory[i].nodes[j]) = <<>>

\* C20: when the scanned directory holds one script whose only flagged
\* construct is one direct call of eval, exec or system on line N, the scan
\* returns exactly one issue, of severity Critical, on line N of that script.
C20_OneCriticalIssueAtCallLine ==
    pc = "scanned" =>
      \A i \in 1..Len(arg) : \A k \in 1..MaxNodes :
        OneDangerousCallAt(arg, i, k) =>
          /\ Len(ret) = 1
          /\ ret[1].type = "Critical"
          /\ ret[1].line = arg[i].nodes[k].lineno
          /\ ret[1].file = arg[i].name

\* the scan of a directory with a text file and a script of two nodes has
\* ended: a benign call on line 3 and a direct call of exec on line 8
C20_Witness ==
    /\ pc = "scanned"
    /\ Len(arg) = 2
    /\ \E i \in 1..2 :
         /\ OneDangerousCallAt(arg, i, 2)
         /\ Len(arg[i].nodes) = 2
         /\ arg[i].nodes[1].id = "print"
         /\ arg[i].nodes[1].lineno = 3
         /\ arg[i].nodes[2].id = "exec"
         /\ arg[i].nodes[2].lineno = 8
    /\ Len(ret) = 1

\* the sites of the input manifest of the run
InputSites == ConfigGet(arg, "sites", <<>>)

\* the positions in a list of site positions are strictly increasing
Increasing(positions) ==
    \A i, j \in 1..Len(positions) : i < j => positions[i] < positions[j]

\* C21: a run of validate_config that writes its report has made one record
\* per site of the input manifest, the i-th record being the one of the i-th
\* site; the clean manifest holds the sites found valid, in their original
\* relative order; and total_sites = valid_sites + invalid_sites.
C21_OneRecordPerSiteInOrder ==
    pc = "done" =>
      LET report == out.report[1]
          clean == out.clean[1]
      IN  /\ Len(report.validation_details) = Len(InputSites)
          /\ report.total_sites = Len(InputSites)
          /\ \A i \in 1..Len(InputSites) :
               /\ report.validation_details[i].key
                    = Get(InputSites[i].key, StrV(<<"unknown">>))
               /\ report.validation_details[i].type = ClassifySite(InputSites[i])
          /\ Increasing(valid_sites)
          /\ {valid_sites[k] : k \in 1..Len(valid_sites)} = ValidRecords
          /\ Len(clean.sites) = Len(valid_sites)
          /\ \A k \in 1..Len(valid_sites) :
               KeyOf(clean.sites[k]) = KeyOf(InputSites[valid_sites[k]])
          /\ report.total_sites = report.valid_sites + report.invalid_sites

\* a finished run over two sites of different kinds, the first found invalid
\* and the second valid
C21_Witness ==
    /\ pc = "done"
    /\ Len(InputSites) = 2
    /\ InputSites[1] # InputSites[2]
    /\ ~out.report[1].validation_details[1].valid
    /\ out.report[1].validation_details[2].valid
    /\ Len(out.clean[1].sites) = 1
    /\ out.report[1].invalid_sites = 1

PenaltyReasons ==
    SelectSeq(ret.reasons, LAMBDA r : r.kind \in {"netdisk keyword", "netdisk plugin"})

\* rate_site has just returned a rating for a descriptor with a text name and
\* a text address
RatedText == pc = "rated" /\ ret.category # RAISE

\* C23: with allow_cloud false the denylist penalty is applied at most once:
\* the first matching keyword or, when no keyword matches, the first matching
\* plugin pattern takes exactly 100 off the score and records exactly one
\* reason, however many keywords and patterns match; with allow_cloud true
\* nothing is taken off and no such reason is recorded.
C23_PenaltyAtMostOnce ==
    RatedText =>
      LET kw == FirstNetdiskKeyword(arg.site.name.s, arg.site.api.s)
          pat == FirstExcludePattern(arg.site.api.s)
          unpunished == RateSite(arg.site, TRUE).score
      IN  IF arg.allow_cloud
          THEN PenaltyReasons = <<>> /\ ret.score = unpunished /\ ret.score >= 0
          ELSE /\ Len(PenaltyReasons) <= 1
               /\ ret.score = unpunished - 100 * Len(PenaltyReasons)
               /\ kw # 0 => /\ Len(PenaltyReasons) = 1
                            /\ PenaltyReasons[1].kind = "netdisk keyword"
                            /\ PenaltyReasons[1].k = kw
               /\ (kw = 0 /\ pat # 0) => /\ Len(PenaltyReasons) = 1
                                         /\ PenaltyReasons[1].kind = "netdisk plugin"
                                         /\ PenaltyReasons[1].k = pat
               /\ (kw = 0 /\ pat = 0) => PenaltyReasons = <<>>

\* a descriptor whose name and address hold two keywords of the denylist and
\* whose address matches a plugin pattern was rated with allow_cloud false
\* and lost 100 once
C23_Witness ==
    /\ RatedText
    /\ ~arg.allow_cloud
    /\ arg.site.name = StrV(<<"my", "share">>)
    /\ arg.site.api = StrV(<<"csp_", "Ali", "Share">>)
    /\ FirstExcludePattern(arg.site.api.s) # 0
    /\ Len(PenaltyReasons) = 1
    /\ ret.score = RateSite(arg.site, TRUE).score - 100

\* a descriptor that matches a plugin pattern and no keyword was rated with
\* allow_cloud false
C23_PatternWitness ==
    /\ RatedText
    /\ ~arg.allow_cloud
    /\ FirstNetdiskKeyword(arg.site.name.s, arg.site.api.s) = 0
    /\ FirstExcludePattern(arg.site.api.s) # 0
    /\ Len(PenaltyReasons) = 1

\* the category of the first rule, in the order of the decision list, that
\* the descriptor matches; an address that is not text holds no substring and
\* has no prefix
FirstMatchingRule(site) ==
    LET address == IF IsStr(Get(site.api, StrV(<<>>))) THEN Get(site.api, StrV(<<>>)).s
                   ELSE <<>>
    IN  IF site.type = IntV(1) THEN "api"
        ELSE IF Contains(address, DOT_JS) THEN "js"
        ELSE IF Contains(address, DOT_PY) THEN "python"
        ELSE IF Contains(address, DOT_JAR) \/ Truthy(Get(site.jar, NullV)) THEN "jar"
        ELSE IF StartsWith(address, CSP) THEN "jar"
        ELSE IF StartsWith(address, HTTP) THEN "api"
        ELSE "unknown"

\* C24: for every descriptor classify_site returns the category of the first
\* matching rule in the order: kind 1, '.js' in the address, '.py' in the
\* address, '.jar' in the address or a non-empty jar field, address starting
\* with 'csp_', address starting with 'http', otherwise unknown.
C24_FirstMatchingRuleWins ==
    pc = "classified" => ret = FirstMatchingRule(arg)

\* the cache root of the run: the resolved plugins directory
CacheRoot == ResolvePath(DownloadDir)

\* C25: every file written during dependency resolution lies inside the
\* cache root (the plugins directory), whatever relative specifiers the
\* fetched scripts hold ('../' chains, absolute paths, protocol-relative
\* forms).
C25_WritesStayInCacheRoot ==
    \A p \in DOMAIN fs : StartsWith(p, CacheRoot \o <<"/">>)

\* C26: within one resolution run (a top-level download_plugin call and all
\* its recursive calls) no URL is fetched more than once, the top-level URL
\* and dependencies whose fetch failed included.
C26_NoUrlFetchedTwice ==
    \A i, j \in 1..Len(fetchLog) : fetchLog[i].url = fetchLog[j].url => i = j

\* what validate_site may do to the descriptor of a site of the given
\* category whose fetch succeeded: for a script, a new address, and a new ext
\* equal to it only where ext was the old address; for an archive, a new jar
AllowedRewrite(before, after, type) ==
    IF type \in {"js", "python"}
    THEN /\ after = [before EXCEPT !.api = after.api, !.ext = after.ext]
         /\ after.ext # before.ext => (before.ext = before.api /\ after.ext = after.api)
    ELSE /\ type = "jar"
         /\ after = [before EXCEPT !.jar = after.jar]

\* C27: validate_site changes a descriptor only after a fetch for that site
\* succeeded: the descriptors of API and Unknown sites, of archive sites that
\* need no fetch and of script and archive sites whose fetch failed keep every
\* field; after a script fetch only the address changes, and ext with it only
\* when it equalled the old address; after an archive fetch only jar changes.
C27_RewriteOnlyAfterFetch ==
    [][/\ pc # "download_config" => Len(sites') = Len(sites)
       /\ \A i \in 1..Len(sites) :
            sites'[i] # sites[i] =>
              /\ i = idx
              /\ pc \in {"fetched", "probe_urls"}
              /\ dl.ok
              /\ AllowedRewrite(sites[i], sites'[i], info.type)]_vars

\* the run over the site 'app', whose ext equals its address, has ended: the
\* script was fetched, and address and ext both name the local file
C27_Witness ==
    /\ pc = "done"
    /\ InputSites = <<AppSite>>
    /\ dl.ok
    /\ sites[1] = [AppSite EXCEPT
                     !.api = StrV(LocalPrefix \o <<"app", ".js">>),
                     !.ext = StrV(LocalPrefix \o <<"app", ".js">>)]

\* a denylist signal matches the descriptor
DenylistedSite(site) ==
    Denylisted(Get(site.name, StrV(<<>>)).s, Get(site.api, StrV(<<>>)).s)

\* C28: every score rate_site returns lies in -100..120; with allow_cloud
\* false a descriptor that matches the denylist scores at most 20, below the
\* default minimum scores of smart_build (30) and filter_quality_sites (50),
\* so no such descriptor is in the output of either filter run with its
\* defaults.
C28_DenylistedBelowThresholds ==
    /\ RatedText =>
         /\ ret.score >= 0 - 100
         /\ ret.score <= 120
         /\ (~arg.allow_cloud /\ DenylistedSite(arg.site)) =>
              /\ ret.score <= 20
              /\ ret.score < MIN_SCORE_BUILD
              /\ ret.score < MIN_SCORE_QUALITY
    /\ (pc = "quality" /\ ~arg.allow_cloud) =>
         \A i \in 1..Len(ret) : ~DenylistedSite(ret[i].site)
    /\ pc = "selected" =>
         \A i \in 1..Len(ret) : ~DenylistedSite(ret[i].site)

\* smart_build's filter ran over a denylisted descriptor that scores 20, the
\* most such a descriptor can get, and a descriptor that scores 120: it kept
\* the second alone
C28_Witness ==
    /\ pc = "selected"
    /\ Len(stack) = 2
    /\ DenylistedSite(stack[1].site)
    /\ ~stack[1].allow_cloud
    /\ stack[1].rating.score = 20
    /\ stack[2].rating.score = 120
    /\ Len(ret) = 1
    /\ ret[1].site = stack[2].site

\* the candidates test_plugin_urls may probe: the first ProbeCap URLs found
FirstCandidates ==
    SubSeq(info.urls, 1, IF Len(info.urls) < ProbeCap THEN Len(info.urls) ELSE ProbeCap)

\* the probe of the next URL raises without a request (no scheme) or is
\* interrupted inside urlopen
ProbeRaises ==
    \/ ~CanRequest(probe.urls[Len(probe.results) + 1])
    \/ interrupts' # interrupts

\* C29: test_plugin_urls probes the first 10 candidates only, in their order:
\* a step of its loop records exactly one result, for the next of the first 10
\* candidates; a probe that raises is recorded false and the loop goes on; the
\* loop ends after the last of them, with one result per probed URL and at
\* most 10 results.
C29_ProbesFirstTenInOrder ==
    [][ (pc = "probe_urls" /\ pc' # "cancelled") =>
          LET k == Len(probe.results) + 1
          IN  /\ probe.urls = FirstCandidates
              /\ k <= Len(probe.urls)
              /\ k <= ProbeCap
              /\ probeLog' \in {probeLog, Append(probeLog, probe.urls[k])}
              /\ IF k < Len(probe.urls)
                 THEN /\ pc' = "probe_urls"
                      /\ probe'.urls = probe.urls
                      /\ Len(probe'.results) = k
                      /\ SubSeq(probe'.results, 1, k - 1) = probe.results
                      /\ ProbeRaises => ~probe'.results[k]
                 ELSE /\ pc' = "loop"
                      /\ info'.total_count = Len(FirstCandidates)
                      /\ info'.valid_count \in
                           {CountTrue(probe.results), CountTrue(probe.results) + 1}
                      /\ ProbeRaises => info'.valid_count = CountTrue(probe.results)
                      /\ validation_details' = Append(validation_details, info')
      ]_vars

\* a script with more than 10 URLs was probed to the end: 10 results, the
\* first for a URL that cannot be requested, some of the others reachable
C29_Witness ==
    /\ pc = "done"
    /\ Len(validation_details) = 1
    /\ Len(validation_details[1].urls) > ProbeCap
    /\ validation_details[1].total_count = ProbeCap
    /\ validation_details[1].valid_count = 3
    /\ Len(probeLog) = ProbeCap - 1
    /\ interrupts = 1

\* C30: every top-level download_plugin call terminates: whatever the
\* dependency graph and whichever fetches succeed or fail, the call of each run
\* returns a result, with no frame left on the call stack (a run begins only
\* once the call before it has returned).
C30_DownloadPluginTerminates ==
    (pc = "fetch") ~> (pc = "fetched" /\ stack = <<>>)

\* a call on the cyclic pair cyc.js / cyb.js has returned after requesting the
\* root's URL a second time through the cycle
C30_Witness ==
    /\ pc = "fetched"
    /\ arg.url = File("cyc", ".js")
    /\ stack = <<>>
    /\ dl.ok
    /\ \E i, j \in 1..Len(fetchLog) : i < j /\ fetchLog[i].url = fetchLog[j].url

====
